---- MODULE Spec2Model ----
(***************************************************************************)
(* A model of lancedb-haystack: the schema builder, the document encoder   *)
(* and decoder, the filter compiler and the document store around them.    *)
(*                                                                         *)
(* Python values are records tagged by t, the payload in a field named by  *)
(* its kind (n: integer, s: string, b: boolean, q: sequence, f: function). *)
(* A dict is a function from its keys, a list a sequence.  A raised        *)
(* exception is the value Error(name): every operator that can raise       *)
(* returns it, and every caller hands it on, as the exception unwinds the  *)
(* callers in the code.                                                    *)
(***************************************************************************)
EXTENDS Integers, Sequences, FiniteSets, TLC

VARIABLES
    _metadata_schema,  \* LanceDBDocumentStore._metadata_schema
    _embedding_dims,   \* LanceDBDocumentStore._embedding_dims
    table,            \* the table of the database: None until it is created
    returned,         \* what the last call on the store returned or raised
    schema,           \* the pa.Schema a conversion is given
    document,         \* the Document being encoded
    lance_dict,       \* the row: the encoder's result, the decoder's argument
    doc_dict,         \* the dict the decoder hands to Document.from_dict
    decoded,          \* the decoder's result
    filters,          \* the filters a query is given
    query,            \* the where clause compiled from the filters
    matched,          \* what the where clause is on the row lance_dict
    retriever,        \* the retriever constructed on the store, None before
    args,             \* the arguments of the last call of a read path
    pc                \* where the run is

storeVars == <<_metadata_schema, _embedding_dims, table, returned>>
codecVars == <<schema, document, lance_dict, doc_dict, decoded>>
filterVars == <<filters, query, matched, retriever, args>>
vars == <<storeVars, codecVars, filterVars, pc>>

-----------------------------------------------------------------------------
(* Python values *)

None == [t |-> "none"]
PyInt(n) == [t |-> "int", n |-> n]
PyStr(s) == [t |-> "str", s |-> s]
PyBool(b) == [t |-> "bool", b |-> b]
PyList(q) == [t |-> "list", q |-> q]
PyDict(f) == [t |-> "dict", f |-> f]
\* datetime.datetime, counted in seconds from a fixed instant
Datetime(n) == [t |-> "datetime", n |-> n]
\* pa.scalar(datetime, timestamp[s]): what the encoder stores for a timestamp
Scalar(n) == [t |-> "scalar", n |-> n]
\* pandas.DataFrame n, and the JSON text DataFrame.to_json renders it to
DataFrame(n) == [t |-> "dataframe", n |-> n]
Json(n) == [t |-> "json", n |-> n]
\* haystack ByteStream n, and the {data, mime_type} dict Document.to_dict makes of it
ByteStream(n) == [t |-> "bytestream", n |-> n]
BlobDict(n) == [t |-> "blobdict", n |-> n]
\* a raised exception
Error(e) == [t |-> "error", e |-> e]

IsError(x) == x.t = "error"
EmptyDict == PyDict([k \in {} |-> None])

\* Python truthiness of the values the code tests with "if x" / "not x"
Truthy(x) ==
    CASE x.t = "none" -> FALSE
      [] x.t = "bool" -> x.b
      [] x.t = "int" -> x.n # 0
      [] x.t = "str" -> x.s # ""
      [] x.t = "list" -> Len(x.q) > 0
      [] x.t = "dict" -> DOMAIN x.f # {}
      [] OTHER -> TRUE

\* "key in d" for a dict d
HasKey(d, k) == k \in DOMAIN d.f

\* the dict d without key k (d.pop(k), del d[k])
DictWithout(d, k) == PyDict([n \in (DOMAIN d.f) \ {k} |-> d.f[n]])

\* the dict d with d[k] = x
DictWith(d, k, x) == PyDict([n \in (DOMAIN d.f) \cup {k} |-> IF n = k THEN x ELSE d.f[n]])

\* Op(a), with a evaluated once however often Op reads it
Apply(Op(_), a) == CHOOSE r \in {Op(x) : x \in {a}} : TRUE

\* the set of the elements of a sequence
Range(s) == {s[i] : i \in DOMAIN s}

-----------------------------------------------------------------------------
(* pyarrow types.  A field is [name, type]; a type is [kind] for a         *)
(* primitive, [kind |-> "struct", fields] for a pa.StructType and          *)
(* [kind |-> "list", list_size] for the fixed-size vector.  A pa.Schema is *)
(* the sequence of its fields.                                             *)

Field(name, type) == [name |-> name, type |-> type]
Prim(kind) == [kind |-> kind]
Struct(fields) == [kind |-> "struct", fields |-> fields]
FixedList(n) == [kind |-> "list", list_size |-> n]

\* str(field_type).startswith("struct") / .startswith("timestamp")
IsStructType(type) == type.kind = "struct"
IsTimestampType(type) == type.kind = "timestamp"

FieldNames(fields) == [i \in DOMAIN fields |-> fields[i].name]

\* schema.field(name) / struct.field(name): the first field of that name
FieldNamed(fields, name) ==
    fields[CHOOSE i \in DOMAIN fields :
        /\ fields[i].name = name
        /\ \A j \in DOMAIN fields : fields[j].name = name => i <= j]

\* Python's order of the field names the model uses (str.__lt__: code points)
NameOrder == <<"_isempty", "blob", "content", "count", "dataframe", "id", "meta",
               "name", "sub", "vector", "when", "x", "y">>
NameRank(n) == CHOOSE i \in DOMAIN NameOrder : NameOrder[i] = n
NameLess(a, b) == NameRank(a) < NameRank(b)

-----------------------------------------------------------------------------
(* document_store.py: the functions that build the table's schema *)

\* pa.bool_(), pa.string(), ... : the primitive types of the root schema
BoolType == Prim("bool")
StringType == Prim("string")
BinaryType == Prim("binary")

_create_isempty_section(field_names) ==
    Struct([i \in DOMAIN field_names |-> Field(field_names[i], BoolType)])

\* The names of the root _isempty struct, in the order _create_schema lists them
RootIsEmptyNames == <<"blob", "content", "dataframe", "id", "meta", "vector">>

\* A sort that leaves the fields as they are declared
Unsorted(fields) == fields

\* fields.sort(key=lambda x: x.name)
SortByName(fields) == SortSeq(fields, LAMBDA a, b : NameLess(a.name, b.name))

RECURSIVE _prepare_metadata_schema(_)
_prepare_metadata_schema(struct) ==
    LET fields == [i \in DOMAIN struct.fields |->
                     LET field == struct.fields[i]
                     IN  IF IsStructType(field.type)
                         THEN Field(field.name, _prepare_metadata_schema(field.type))
                         ELSE field]
        sorted == SortByName(fields)
        is_empty_type == _create_isempty_section(FieldNames(sorted))
    IN  Struct(<<Field("_isempty", is_empty_type)>> \o sorted)

ConfigErrorNoMetadata == Error("ValueError: metadata_schema is not specified")
ConfigErrorNoDims == Error("ValueError: embedding_dims is not specified")
ConfigErrorBadDims == Error("ValueError: negative or zero embedding length")
ConfigErrors == {ConfigErrorNoMetadata, ConfigErrorNoDims, ConfigErrorBadDims}

\* metadata_schema is a struct type or None, embedding_dims a PyInt or None
_create_schema(metadata_schema, embedding_dims) ==
    IF metadata_schema = None THEN ConfigErrorNoMetadata
    ELSE IF embedding_dims = None THEN ConfigErrorNoDims
    ELSE IF embedding_dims.n <= 0 THEN ConfigErrorBadDims
    ELSE <<Field("id", StringType),
           Field("vector", FixedList(embedding_dims.n)),
           Field("content", StringType),
           Field("dataframe", StringType),
           Field("blob", BinaryType),
           Field("meta", _prepare_metadata_schema(metadata_schema)),
           Field("_isempty", _create_isempty_section(RootIsEmptyNames))>>

-----------------------------------------------------------------------------
(* datetime: the ISO-8601 texts the model uses and the instants they name *)

IsoTable ==
    ("2024-01-01T00:00:00" :> 1) @@ ("2024-01-01" :> 1) @@ ("2024-06-01T12:30:00" :> 2)

\* datetime.datetime.fromisoformat(s): ValueError for a text that is no ISO date
fromisoformat(s) ==
    IF s \in DOMAIN IsoTable THEN Datetime(IsoTable[s]) ELSE Error("ValueError")

\* datetime.isoformat(): always the full "YYYY-MM-DDTHH:MM:SS" form
isoformat(n) ==
    IF n = 1 THEN PyStr("2024-01-01T00:00:00") ELSE PyStr("2024-06-01T12:30:00")

-----------------------------------------------------------------------------
(* haystack.Document: the record of its seven attributes, each a Python    *)
(* value (None when unset; meta is always a dict).                         *)

Document(id, content, dataframe, blob, meta, score, embedding) ==
    [t |-> "Document", id |-> id, content |-> content, dataframe |-> dataframe, blob |-> blob,
     meta |-> meta, score |-> score, embedding |-> embedding]

\* Document.to_dict(flatten=False): every attribute is a key, set or not; the
\* dataframe is rendered to JSON text and the blob to a dict
to_dict(doc) ==
    PyDict([k \in {"id", "content", "dataframe", "blob", "meta", "score", "embedding"} |->
        CASE k = "dataframe" ->
               IF doc.dataframe = None THEN None ELSE Json(doc.dataframe.n)
          [] k = "blob" ->
               IF doc.blob = None THEN None ELSE BlobDict(doc.blob.n)
          [] OTHER -> doc[k]])

-----------------------------------------------------------------------------
(* conversion/python_to_lancedb.py *)

p2l_convert_timestamp(value, field_type) ==
    LET return_value ==
            IF value.t = "datetime" THEN value
            ELSE IF value.t = "str" THEN fromisoformat(value.s)
            ELSE Error("UnboundLocalError")
    IN  IF IsError(return_value) THEN return_value ELSE Scalar(return_value.n)

\* A convert_field that converts nothing
p2l_convert_field_asis(value, field_type) == value

RECURSIVE p2l_convert_struct(_, _)
p2l_convert_field(value, field_type) ==
    IF IsTimestampType(field_type) THEN p2l_convert_timestamp(value, field_type)
    ELSE IF IsStructType(field_type) THEN p2l_convert_struct(value, field_type)
    ELSE value

\* A convert_struct that copies the keys of value the struct does not declare
p2l_convert_struct_copying(value, field_type) ==
    LET names == Range(FieldNames(field_type.fields)) \ {"_isempty"}
    IN  IF value.t # "dict" THEN Error("TypeError")
        ELSE PyDict([n \in names \cup DOMAIN value.f \cup {"_isempty"} |->
                IF n = "_isempty" THEN PyDict([m \in names |-> PyBool(~HasKey(value, m))])
                ELSE IF ~HasKey(value, n) THEN None
                ELSE IF n \in names
                THEN p2l_convert_field(value.f[n], FieldNamed(field_type.fields, n).type)
                ELSE value.f[n]])

\* "field_name in value" raises TypeError when value is no container
p2l_convert_struct(value, field_type) ==
    LET fields == SelectSeq(field_type.fields, LAMBDA f : f.name # "_isempty")
        names == Range(FieldNames(fields))
        conv == [n \in names |->
                    IF HasKey(value, n)
                    THEN p2l_convert_field(value.f[n], FieldNamed(fields, n).type)
                    ELSE None]
        _isempty == PyDict([n \in names |-> PyBool(~HasKey(value, n))])
        raised == {i \in DOMAIN fields : IsError(conv[fields[i].name])}
    IN  IF value.t # "dict" THEN Error("TypeError")
        ELSE IF raised # {}
        THEN conv[fields[CHOOSE i \in raised : \A j \in raised : i <= j].name]
        ELSE PyDict([n \in names \cup {"_isempty"} |->
                        IF n = "_isempty" THEN _isempty ELSE conv[n]])

convert_document_to_lancedb(doc, sch) ==
    LET embed_dims == FieldNamed(sch, "vector").type.list_size
        meta_schema == FieldNamed(sch, "meta").type
        doc_dict0 == DictWithout(to_dict(doc), "score")
        embedding == doc_dict0.f["embedding"]
        d == DictWithout(doc_dict0, "embedding")
        vector == IF Truthy(embedding) THEN embedding
                  ELSE PyList([i \in 1..embed_dims |-> 0])
        meta == p2l_convert_struct(d.f["meta"], meta_schema)
        field_names_to_do == Range(FieldNames(sch)) \ {"_isempty", "meta", "vector"}
        _isempty == PyDict([n \in field_names_to_do \cup {"vector", "meta"} |->
                        CASE n = "vector" -> PyBool(~Truthy(embedding))
                          [] n = "meta" -> PyBool(FALSE)
                          [] OTHER -> PyBool(~HasKey(d, n))])
    IN  IF IsError(meta) THEN meta
        ELSE PyDict([n \in field_names_to_do \cup {"vector", "meta", "_isempty"} |->
                CASE n = "vector" -> vector
                  [] n = "meta" -> meta
                  [] n = "_isempty" -> _isempty
                  [] OTHER -> IF HasKey(d, n) THEN d.f[n] ELSE None])

-----------------------------------------------------------------------------
(* conversion/lancedb_to_python.py *)

\* value.isoformat(): only a datetime has it
l2p_convert_timestamp(value, field_type) ==
    IF value.t = "datetime" THEN isoformat(value.n) ELSE Error("AttributeError")

\* A convert_struct that keeps the fields flagged empty
l2p_convert_struct_unfiltered(value, field_type) == DictWithout(value, "_isempty")

\* A comprehension without its "if not is_empty[field.name]"
l2p_comprehension_all(value, is_empty, fields) ==
    PyDict([n \in Range(FieldNames(fields)) |-> value.f[n]])

\* The dict comprehension of the two decoders: the fields not flagged empty,
\* converted; the first exception raised on the way, if any
RECURSIVE l2p_convert_struct(_, _)
l2p_convert_field(value, field_type) ==
    IF IsTimestampType(field_type) THEN l2p_convert_timestamp(value, field_type)
    ELSE IF IsStructType(field_type) THEN l2p_convert_struct(value, field_type)
    ELSE value

l2p_comprehension(value, is_empty, fields) ==
    Apply(LAMBDA look :
            LET kept == {i \in DOMAIN fields :
                            \/ IsError(look[i])
                            \/ ~Truthy(is_empty.f[fields[i].name])}
                raised == {i \in kept : IsError(look[i])}
            IN  IF raised # {} THEN look[CHOOSE i \in raised : \A j \in raised : i <= j]
                ELSE PyDict([n \in {fields[i].name : i \in kept} |->
                                look[CHOOSE i \in kept : fields[i].name = n]]),
          [i \in DOMAIN fields |->
                LET n == fields[i].name
                IN  IF is_empty.t # "dict" THEN Error("TypeError")
                    ELSE IF ~HasKey(is_empty, n) THEN Error("KeyError")
                    ELSE IF Truthy(is_empty.f[n]) THEN None
                    ELSE IF ~HasKey(value, n) THEN Error("KeyError")
                    ELSE l2p_convert_field(value.f[n], fields[i].type)])

l2p_convert_struct(value, field_type) ==
    IF value.t # "dict" THEN Error("AttributeError")
    ELSE IF ~HasKey(value, "_isempty") THEN Error("KeyError")
    ELSE l2p_comprehension(DictWithout(value, "_isempty"), value.f["_isempty"],
            SelectSeq(field_type.fields, LAMBDA f : f.name # "_isempty"))

\* Document.from_dict: unset attributes default to None, meta to {}, and an
\* unset id is generated; JSON text is read back to a DataFrame, the blob dict
\* to a ByteStream
GeneratedId == PyStr("generated-id")

\* The keys from_dict takes as attributes; any other key is taken as flattened
\* metadata, which is refused beside a non-empty meta
DocumentFields == {"id", "content", "dataframe", "blob", "meta", "score", "embedding"}

from_dict(data) ==
    LET get(k) == IF HasKey(data, k) THEN data.f[k] ELSE None
        dataframe == IF get("dataframe") = None THEN None
                     ELSE IF get("dataframe").t = "json" THEN DataFrame(get("dataframe").n)
                     ELSE Error("ValueError")
        blob == IF ~Truthy(get("blob")) THEN get("blob")
                ELSE IF get("blob").t = "blobdict" THEN ByteStream(get("blob").n)
                ELSE Error("TypeError")
        flatten_meta == (DOMAIN data.f) \ DocumentFields
        meta == IF HasKey(data, "meta") THEN data.f["meta"] ELSE EmptyDict
    IN  IF IsError(dataframe) THEN dataframe
        ELSE IF IsError(blob) THEN blob
        ELSE IF flatten_meta # {} /\ Truthy(meta) THEN Error("ValueError")
        ELSE Document(IF Truthy(get("id")) THEN get("id") ELSE GeneratedId,
                      get("content"), dataframe, blob,
                      IF flatten_meta # {} THEN PyDict([k \in flatten_meta |-> data.f[k]])
                      ELSE meta,
                      get("score"), get("embedding"))

\* The dict convert_lancedb_to_document builds and hands to Document.from_dict
l2p_doc_dict(result, sch) ==
    IF ~HasKey(result, "_isempty") THEN Error("KeyError")
    ELSE
    LET is_empty == result.f["_isempty"]
        rest == DictWithout(result, "_isempty")
        fields == SelectSeq(sch, LAMBDA f : f.name # "_isempty")
        score == IF HasKey(rest, "score") THEN rest.f["score"]
                 ELSE IF HasKey(rest, "_distance") THEN rest.f["_distance"]
                 ELSE None
    IN  Apply(LAMBDA d0 :
            IF IsError(d0) THEN d0
            ELSE Apply(LAMBDA d1 :
                    Apply(LAMBDA d2 :
                            IF ~HasKey(d2, "meta") \/ ~Truthy(d2.f["meta"])
                            THEN DictWith(d2, "meta", EmptyDict)
                            ELSE d2,
                          IF HasKey(d1, "vector")
                          THEN DictWith(DictWithout(d1, "vector"), "embedding", d1.f["vector"])
                          ELSE d1),
                    DictWith(d0, "score", score)),
            l2p_comprehension(rest, is_empty, fields))

convert_lancedb_to_document(result, sch) ==
    Apply(LAMBDA d : IF IsError(d) THEN d ELSE from_dict(d), l2p_doc_dict(result, sch))

\* What the decoders leave of their argument: result.pop("_isempty") and
\* value.pop("_isempty") remove the key from the caller's dict, at the root and
\* in every nested struct the comprehension reached before it ended or raised
RECURSIVE l2p_struct_effect(_, _), l2p_effect_from(_, _, _, _)
l2p_effect_from(d, is_empty, fields, i) ==
    IF i > Len(fields) THEN d
    ELSE
    LET n == fields[i].name
        type == fields[i].type
    IN  IF is_empty.t # "dict" \/ ~HasKey(is_empty, n) THEN d
        ELSE IF Truthy(is_empty.f[n]) THEN l2p_effect_from(d, is_empty, fields, i + 1)
        ELSE IF ~HasKey(d, n) THEN d
        ELSE
        LET d1 == IF IsStructType(type)
                  THEN DictWith(d, n, l2p_struct_effect(d.f[n], type))
                  ELSE d
        IN  IF IsError(l2p_convert_field(d.f[n], type)) THEN d1
            ELSE l2p_effect_from(d1, is_empty, fields, i + 1)

l2p_struct_effect(value, field_type) ==
    IF value.t # "dict" \/ ~HasKey(value, "_isempty") THEN value
    ELSE l2p_effect_from(DictWithout(value, "_isempty"), value.f["_isempty"],
            SelectSeq(field_type.fields, LAMBDA f : f.name # "_isempty"), 1)

l2p_result_effect(result, sch) ==
    IF ~HasKey(result, "_isempty") THEN result
    ELSE l2p_effect_from(DictWithout(result, "_isempty"), result.f["_isempty"],
            SelectSeq(sch, LAMBDA f : f.name # "_isempty"), 1)

-----------------------------------------------------------------------------
(* filters.py.  A where clause is the text of an SQL expression: the model  *)
(* keeps it as the sequence of its tokens.  A field name is the sequence of *)
(* its dot-separated parts: "meta.sub.x" is <<"meta", "sub", "x">>.         *)

FieldName(path) == [t |-> "str", p |-> path]
Sql(toks) == [t |-> "sql", toks |-> toks]

Tok(k) == [k |-> k, p |-> <<>>, v |-> None]
Col(path) == [k |-> "col", p |-> path, v |-> None]
Lit(value) == [k |-> "lit", p |-> <<>>, v |-> value]
\* the text Python's str() gives a value that SQL does not read as a literal
Raw(value) == [k |-> "raw", p |-> <<>>, v |-> value]

FilterError == Error("FilterError")

\* The concatenation of pieces of text; the first exception among them, if any
RECURSIVE SqlCat(_)
SqlCat(parts) ==
    IF parts = <<>> THEN Sql(<<>>)
    ELSE IF IsError(parts[1]) THEN parts[1]
    ELSE Apply(LAMBDA rest : IF IsError(rest) THEN rest ELSE Sql(parts[1].toks \o rest.toks),
               SqlCat(Tail(parts)))

\* sep.join(parts)
RECURSIVE SqlJoin(_, _)
SqlJoin(parts, sep) ==
    IF Len(parts) <= 1 THEN SqlCat(parts)
    ELSE Apply(LAMBDA rest : SqlCat(<<parts[1], Sql(<<sep>>), rest>>), SqlJoin(Tail(parts), sep))

\* The texts of the model that hold a single quote
QuotedTexts == {"d'3"}

\* f"'{value}'" for a str, f"{value}" for anything else; a quote inside the
\* text is written as it is and ends the literal there
SqlValue(value) ==
    IF value.t = "str" /\ value.s \in QuotedTexts THEN Sql(<<Raw(value)>>)
    ELSE IF value.t \in {"str", "json", "int", "bool"} THEN Sql(<<Lit(value)>>)
    ELSE Sql(<<Raw(value)>>)

\* field.startswith("meta")
StartsWithMeta(field) == Len(field.p) >= 1 /\ field.p[1] = "meta"

\* field.rsplit(".", 1) gives one part for a name without a dot: ValueError
is_null(field) ==
    IF field.p = <<"vector">>
    THEN Sql(<<Tok("("), Col(<<"_isempty_vector">>), Tok("=="), Lit(PyBool(TRUE)),
               Tok("OR"), Col(<<"vector">>), Tok("IS NULL"), Tok(")")>>)
    ELSE IF StartsWithMeta(field)
    THEN IF Len(field.p) = 1 THEN Error("ValueError")
         ELSE LET field_prefix == SubSeq(field.p, 1, Len(field.p) - 1)
                  field_name == field.p[Len(field.p)]
              IN  Sql(<<Tok("("), Col(field_prefix \o <<"_isempty", field_name>>), Tok("=="),
                        Lit(PyBool(TRUE)), Tok("OR"), Col(field.p), Tok("IS NULL"), Tok(")")>>)
    ELSE Sql(<<Col(field.p), Tok("IS NULL")>>)

is_not_null(field) ==
    IF field.p = <<"vector">>
    THEN Sql(<<Tok("("), Col(<<"_isempty_vector">>), Tok("=="), Lit(PyBool(FALSE)),
               Tok("AND"), Col(<<"vector">>), Tok("IS NOT NULL"), Tok(")")>>)
    ELSE IF StartsWithMeta(field)
    THEN IF Len(field.p) = 1 THEN Error("ValueError")
         ELSE LET field_prefix == SubSeq(field.p, 1, Len(field.p) - 1)
                  field_name == field.p[Len(field.p)]
              IN  Sql(<<Tok("("), Col(field_prefix \o <<"_isempty", field_name>>), Tok("=="),
                        Lit(PyBool(FALSE)), Tok("AND"), Col(field.p), Tok("IS NOT NULL"), Tok(")")>>)
    ELSE Sql(<<Col(field.p), Tok("IS NOT NULL")>>)

\* An equal that writes the null test whatever the value
equal_null_test(field, value) == is_null(field)

equal(field, value) ==
    IF value = None THEN is_null(field)
    ELSE SqlCat(<<Sql(<<Col(field.p), Tok("=")>>), SqlValue(value)>>)

\* A not_equal that joins a presence test and the inequality with AND
not_equal_gated(field, value) ==
    IF value = None THEN is_not_null(field)
    ELSE SqlCat(<<Sql(<<Tok("(")>>), is_not_null(field),
                  Sql(<<Tok("AND"), Col(field.p), Tok("!=")>>), SqlValue(value),
                  Sql(<<Tok(")")>>)>>)

not_equal(field, value) ==
    IF value = None THEN is_not_null(field)
    ELSE SqlCat(<<Sql(<<Tok("(")>>), is_null(field),
                  Sql(<<Tok("OR"), Col(field.p), Tok("!=")>>), SqlValue(value),
                  Sql(<<Tok(")")>>)>>)

\* An ordering that writes the null test whatever the value
ordering_null_test(op, field, value) == is_null(field)

\* greater_than, greater_than_equal, less_than, less_than_equal: the same code
\* but for the operator written into the text
ordering(op, field, value) ==
    IF value = None THEN Sql(<<Lit(PyBool(FALSE)), Tok("=="), Lit(PyBool(TRUE))>>)
    ELSE IF value.t = "dataframe" THEN FilterError
    ELSE IF value.t \in {"str", "json"}
    THEN IF value.t = "json" \/ IsError(fromisoformat(value.s)) THEN FilterError
         ELSE SqlCat(<<Sql(<<Tok("(")>>), is_not_null(field),
                       Sql(<<Tok("AND"), Col(field.p), Tok(op),
                             Lit(fromisoformat(value.s)), Tok(")")>>)>>)
    ELSE IF value.t \in {"list", "dict"} THEN FilterError
    ELSE SqlCat(<<Sql(<<Tok("(")>>), is_not_null(field),
                  Sql(<<Tok("AND"), Col(field.p), Tok(op)>>), SqlValue(value),
                  Sql(<<Tok(")")>>)>>)

greater_than(field, value) == ordering(">", field, value)
greater_than_equal(field, value) == ordering(">=", field, value)
less_than(field, value) == ordering("<", field, value)
less_than_equal(field, value) == ordering("<=", field, value)

\* ", ".join(...) of the values of the list
InList(value) == SqlJoin([i \in DOMAIN value.q |-> SqlValue(value.q[i])], Tok(","))

\* the text ends with a ")" that no "(" opens
not_in(field, value) ==
    IF value.t # "list" THEN FilterError
    ELSE SqlCat(<<is_null(field), Sql(<<Tok("OR"), Col(field.p), Tok("NOT IN"), Tok("(")>>),
                  InList(value), Sql(<<Tok(")"), Tok(")")>>)>>)

in_(field, value) ==
    IF value.t # "list" THEN FilterError
    ELSE SqlCat(<<is_not_null(field), Sql(<<Tok("AND"), Col(field.p), Tok("IN"), Tok("(")>>),
                  InList(value), Sql(<<Tok(")")>>)>>)

COMPARISON_OPERATORS == {"==", "!=", ">", ">=", "<", "<=", "in", "not in"}

_parse_comparison_condition(condition) ==
    LET field == condition.f["field"]
        operator == condition.f["operator"]
        value0 == condition.f["value"]
        value == IF value0.t = "dataframe" THEN Json(value0.n) ELSE value0
    IN  IF ~HasKey(condition, "operator") THEN FilterError
        ELSE IF ~HasKey(condition, "value") THEN FilterError
        ELSE IF operator.t # "str" \/ operator.s \notin COMPARISON_OPERATORS THEN FilterError
        ELSE CASE operator.s = "==" -> equal(field, value)
               [] operator.s = "!=" -> not_equal(field, value)
               [] operator.s = ">" -> greater_than(field, value)
               [] operator.s = ">=" -> greater_than_equal(field, value)
               [] operator.s = "<" -> less_than(field, value)
               [] operator.s = "<=" -> less_than_equal(field, value)
               [] operator.s = "in" -> in_(field, value)
               [] operator.s = "not in" -> not_in(field, value)

RECURSIVE _parse_logical_condition(_)
_parse_logical_condition(condition) ==
    LET operator == condition.f["operator"]
        cs == condition.f["conditions"].q
    IN  IF ~HasKey(condition, "operator") THEN FilterError
        ELSE IF ~HasKey(condition, "conditions") THEN FilterError
        ELSE IF operator.t # "str" \/ operator.s \notin {"AND", "OR", "NOT"} THEN FilterError
        ELSE Apply(LAMBDA conditions :
                IF operator.s = "AND"
                THEN SqlCat(<<Sql(<<Tok("(")>>), SqlJoin(conditions, Tok("AND")),
                              Sql(<<Tok(")")>>)>>)
                ELSE IF operator.s = "OR"
                THEN SqlCat(<<Sql(<<Tok("(")>>), SqlJoin(conditions, Tok("OR")),
                              Sql(<<Tok(")")>>)>>)
                ELSE SqlCat(<<Sql(<<Tok("NOT"), Tok("(")>>), SqlJoin(conditions, Tok("AND")),
                              Sql(<<Tok(")")>>)>>),
              [i \in DOMAIN cs |->
                    IF HasKey(cs[i], "field") THEN _parse_comparison_condition(cs[i])
                    ELSE _parse_logical_condition(cs[i])])

convert_filters_to_where_clause(condition) ==
    IF HasKey(condition, "field") THEN _parse_comparison_condition(condition)
    ELSE _parse_logical_condition(condition)

-----------------------------------------------------------------------------
(* The storage engine's reading of a where clause on one row of a table:    *)
(* SQL with three-valued logic (None is NULL).  The whole expression is     *)
(* planned before any row is read, so an unknown column, an ill-typed       *)
(* comparison or text that is no expression fails the query whatever the    *)
(* row holds.  ctx is [schema, row].                                        *)

LanceError == Error("LanceError")
Typed(v, kind, i) == [v |-> v, kind |-> kind, i |-> i]
Failed(i) == Typed(LanceError, "error", i)
Peek(toks, i) == IF i <= Len(toks) THEN toks[i].k ELSE "eof"

Unknown == Prim("unknown")
RECURSIVE TypeAt(_, _)
TypeAt(fields, path) ==
    IF path = <<>> \/ path[1] \notin Range(FieldNames(fields)) THEN Unknown
    ELSE LET type == FieldNamed(fields, path[1]).type
         IN  IF Len(path) = 1 THEN type
             ELSE IF IsStructType(type) THEN TypeAt(type.fields, Tail(path))
             ELSE Unknown

\* The value of a column of the row: NULL below a NULL struct
RECURSIVE Lookup(_, _)
Lookup(value, path) ==
    IF value = None THEN None
    ELSE IF Len(path) = 1 THEN value.f[path[1]]
    ELSE Lookup(value.f[path[1]], Tail(path))

\* The SQL kind of a column type and of a literal
TypeKind(type) ==
    CASE type.kind = "int32" -> "int"
      [] type.kind \in {"string", "bool", "timestamp", "binary", "list", "struct"} -> type.kind
      [] OTHER -> "error"
LitKind(value) ==
    CASE value.t = "int" -> "int"
      [] value.t \in {"str", "json"} -> "string"
      [] value.t = "bool" -> "bool"
      [] value.t = "datetime" -> "timestamp"
      [] OTHER -> "error"

SqlNot(a) == IF a = None THEN None ELSE PyBool(~a.b)
SqlAnd(a, b) ==
    IF a = PyBool(FALSE) \/ b = PyBool(FALSE) THEN PyBool(FALSE)
    ELSE IF a = None \/ b = None THEN None
    ELSE PyBool(TRUE)
SqlOr(a, b) ==
    IF a = PyBool(TRUE) \/ b = PyBool(TRUE) THEN PyBool(TRUE)
    ELSE IF a = None \/ b = None THEN None
    ELSE PyBool(FALSE)

\* A text compared with a timestamp is read as a timestamp
AsTimestamp(x) ==
    IF x.v = None \/ x.kind = "timestamp" THEN x.v
    ELSE IF x.v.t = "str" THEN fromisoformat(x.v.s)
    ELSE LanceError

CmpOps == {"=", "==", "!=", ">", ">=", "<", "<="}
Compare(op, l, r) ==
    LET coerce == l.kind # r.kind /\ {l.kind, r.kind} = {"string", "timestamp"}
        a == IF coerce THEN AsTimestamp(l) ELSE l.v
        b == IF coerce THEN AsTimestamp(r) ELSE r.v
        kind == IF coerce THEN "timestamp" ELSE l.kind
    IN  IF l.kind # r.kind /\ ~coerce THEN LanceError
        ELSE IF kind \in {"error", "struct", "list", "binary"} THEN LanceError
        ELSE IF IsError(a) \/ IsError(b) THEN LanceError
        ELSE IF a = None \/ b = None THEN None
        ELSE IF op \in {"=", "=="} THEN PyBool(a = b)
        ELSE IF op = "!=" THEN PyBool(a # b)
        ELSE IF kind \notin {"int", "timestamp"} THEN LanceError
        ELSE CASE op = ">" -> PyBool(a.n > b.n)
               [] op = ">=" -> PyBool(a.n >= b.n)
               [] op = "<" -> PyBool(a.n < b.n)
               [] op = "<=" -> PyBool(a.n <= b.n)

RECURSIVE EvalOr(_, _, _), EvalOrRest(_, _, _), EvalAnd(_, _, _), EvalAndRest(_, _, _),
          EvalNot(_, _, _), EvalCmp(_, _, _), EvalPrimary(_, _, _), EvalInList(_, _, _, _)

EvalPrimary(toks, i, ctx) ==
    CASE Peek(toks, i) = "(" ->
            Apply(LAMBDA e :
                    IF IsError(e.v) THEN e
                    ELSE IF Peek(toks, e.i) = ")" THEN Typed(e.v, e.kind, e.i + 1)
                    ELSE Failed(e.i),
                  EvalOr(toks, i + 1, ctx))
      [] Peek(toks, i) = "col" ->
            Apply(LAMBDA type :
                    IF type = Unknown THEN Failed(i)
                    ELSE Typed(Lookup(ctx.row, toks[i].p), TypeKind(type), i + 1),
                  TypeAt(ctx.schema, toks[i].p))
      [] Peek(toks, i) = "lit" -> Typed(toks[i].v, LitKind(toks[i].v), i + 1)
      [] OTHER -> Failed(i)

\* x IN (a, b, ...): from position i, the comparisons of l with the listed
\* values joined by OR, up to the closing parenthesis; an empty list is no SQL
EvalInList(toks, i, ctx, l) ==
    Apply(LAMBDA e :
            IF IsError(e.v) THEN e
            ELSE Apply(LAMBDA here :
                    IF IsError(here) THEN Failed(i)
                    ELSE IF Peek(toks, e.i) = ")" THEN Typed(here, "bool", e.i + 1)
                    ELSE IF Peek(toks, e.i) = ","
                    THEN Apply(LAMBDA rest :
                                IF IsError(rest.v) THEN rest
                                ELSE Typed(SqlOr(here, rest.v), "bool", rest.i),
                               EvalInList(toks, e.i + 1, ctx, l))
                    ELSE Failed(e.i),
                  Compare("=", l, e)),
          EvalPrimary(toks, i, ctx))

EvalCmp(toks, i, ctx) ==
    Apply(LAMBDA l :
            IF IsError(l.v) THEN l
            ELSE IF Peek(toks, l.i) \in CmpOps
            THEN Apply(LAMBDA r :
                        IF IsError(r.v) THEN r
                        ELSE Apply(LAMBDA c :
                                    IF IsError(c) THEN Failed(l.i) ELSE Typed(c, "bool", r.i),
                                   Compare(Peek(toks, l.i), l, r)),
                       EvalPrimary(toks, l.i + 1, ctx))
            ELSE IF Peek(toks, l.i) = "IS NULL" THEN Typed(PyBool(l.v = None), "bool", l.i + 1)
            ELSE IF Peek(toks, l.i) = "IS NOT NULL" THEN Typed(PyBool(l.v # None), "bool", l.i + 1)
            ELSE IF Peek(toks, l.i) \in {"IN", "NOT IN"}
            THEN IF Peek(toks, l.i + 1) # "(" THEN Failed(l.i + 1)
                 ELSE Apply(LAMBDA e :
                                IF IsError(e.v) THEN e
                                ELSE IF Peek(toks, l.i) = "IN" THEN e
                                ELSE Typed(SqlNot(e.v), "bool", e.i),
                            EvalInList(toks, l.i + 2, ctx, l))
            ELSE l,
          EvalPrimary(toks, i, ctx))

EvalNot(toks, i, ctx) ==
    IF Peek(toks, i) = "NOT"
    THEN Apply(LAMBDA e :
                IF IsError(e.v) THEN e
                ELSE IF e.kind # "bool" THEN Failed(i)
                ELSE Typed(SqlNot(e.v), "bool", e.i),
               EvalNot(toks, i + 1, ctx))
    ELSE EvalCmp(toks, i, ctx)

\* l is the value of the conjunction read so far
EvalAndRest(toks, l, ctx) ==
    IF IsError(l.v) \/ Peek(toks, l.i) # "AND" THEN l
    ELSE Apply(LAMBDA r :
                IF IsError(r.v) THEN r
                ELSE IF l.kind # "bool" \/ r.kind # "bool" THEN Failed(l.i)
                ELSE Apply(LAMBDA both : EvalAndRest(toks, both, ctx),
                           Typed(SqlAnd(l.v, r.v), "bool", r.i)),
               EvalNot(toks, l.i + 1, ctx))

EvalAnd(toks, i, ctx) ==
    Apply(LAMBDA l : EvalAndRest(toks, l, ctx), EvalNot(toks, i, ctx))

\* l is the value of the disjunction read so far
EvalOrRest(toks, l, ctx) ==
    IF IsError(l.v) \/ Peek(toks, l.i) # "OR" THEN l
    ELSE Apply(LAMBDA r :
                IF IsError(r.v) THEN r
                ELSE IF l.kind # "bool" \/ r.kind # "bool" THEN Failed(l.i)
                ELSE Apply(LAMBDA either : EvalOrRest(toks, either, ctx),
                           Typed(SqlOr(l.v, r.v), "bool", r.i)),
               EvalAnd(toks, l.i + 1, ctx))

EvalOr(toks, i, ctx) ==
    Apply(LAMBDA l : EvalOrRest(toks, l, ctx), EvalAnd(toks, i, ctx))

\* where(clause) on one row: TRUE, FALSE, NULL, or the query's failure.  The
\* rows a query returns are those on which it is TRUE.
EvalWhere(clause, sch, row) ==
    Apply(LAMBDA e :
            IF IsError(e.v) THEN LanceError
            ELSE IF e.i # Len(clause.toks) + 1 \/ e.kind # "bool" THEN LanceError
            ELSE e.v,
          EvalOr(clause.toks, 1, [schema |-> sch, row |-> row]))

-----------------------------------------------------------------------------
(* The inputs of the codec: schemas built by _create_schema from declared   *)
(* metadata structs, and Documents over declared and undeclared metadata.   *)

\* the largest embedding_dims; embeddings run from length 0 to MaxDims + 1
MaxDims == 2

Int32Type == Prim("int32")
TimestampType == Prim("timestamp")

\* The metadata structs as the user declares them (fields in any order)
DeclCount == Struct(<<Field("count", Int32Type)>>)
DeclNested ==
    Struct(<<Field("sub", Struct(<<Field("x", Int32Type), Field("when", TimestampType)>>)),
             Field("name", StringType),
             Field("count", Int32Type)>>)
MetaDecls == {DeclCount, DeclNested}

Schemas == {_create_schema(m, PyInt(n)) : m \in MetaDecls, n \in 1..MaxDims}

\* An option of a key: a value, or Absent for "the dict has no such key"
Absent == [t |-> "absent"]
MkDict(opts) == PyDict([k \in {j \in DOMAIN opts : opts[j] # Absent} |-> opts[k]])

WhenOpts == {Absent, None, Datetime(1), PyStr("2024-01-01T00:00:00"),
             PyStr("2024-01-01"), PyStr("hello")}
SubDicts == {MkDict([x |-> a, when |-> w, y |-> u]) :
                a \in {Absent, PyInt(1)}, w \in WhenOpts, u \in {Absent, PyInt(7)}}
Metas == {MkDict([count |-> c, name |-> n, sub |-> s, y |-> u]) :
                c \in {Absent, None, PyInt(5)}, n \in {Absent, PyStr("a")},
                s \in {Absent, None} \cup SubDicts, u \in {Absent, PyInt(7)}}

Embeddings == {None} \cup {PyList([i \in 1..n |-> b]) : n \in 0..(MaxDims + 1), b \in {0, 1}}

RootDocs == {Document(PyStr("d1"), c, df, bl, m, sc, e) :
                c \in {None, PyStr(""), PyStr("hi")}, df \in {None, DataFrame(1)},
                bl \in {None, ByteStream(1)}, m \in {EmptyDict, MkDict([count |-> PyInt(5)])},
                sc \in {None, PyInt(1)}, e \in Embeddings}
MetaDocs == {Document(PyStr("d1"), None, None, None, m, None, None) : m \in Metas}
Documents == RootDocs \cup MetaDocs

-----------------------------------------------------------------------------
(* The codec run: encode a Document, then decode the row *)

InitCodec ==
    /\ schema \in Schemas
    /\ document \in Documents
    /\ lance_dict = None
    /\ doc_dict = None
    /\ decoded = None
    /\ pc = "start"
    /\ _metadata_schema = None /\ _embedding_dims = None /\ table = None /\ returned = None
    /\ filters = None /\ query = None /\ matched = None
    /\ retriever = None /\ args = None

\* lance_dict = convert_document_to_lancedb(document, schema)
Encode ==
    /\ pc = "start"
    /\ lance_dict' = convert_document_to_lancedb(document, schema)
    /\ pc' = "encoded"
    /\ UNCHANGED <<schema, document, doc_dict, decoded>>
    /\ UNCHANGED <<storeVars, filterVars>>

\* decoded = convert_lancedb_to_document(lance_dict, schema); the call pops
\* the _isempty keys from the dict it is given
Decode ==
    /\ pc \in {"encoded", "row"}
    /\ ~IsError(lance_dict)
    /\ doc_dict' = l2p_doc_dict(lance_dict, schema)
    /\ decoded' = IF IsError(doc_dict') THEN doc_dict' ELSE from_dict(doc_dict')
    /\ lance_dict' = l2p_result_effect(lance_dict, schema)
    /\ pc' = "decoded"
    /\ UNCHANGED <<schema, document>>
    /\ UNCHANGED <<storeVars, filterVars>>

NextCodec == Encode \/ Decode

SpecCodec == InitCodec /\ [][NextCodec]_vars



-----------------------------------------------------------------------------
(* The decoder run: decode a row as the storage engine returns it, written  *)
(* by the encoder or not. A row has a key for every field of the schema,    *)
(* and a boolean flag for every member of an _isempty struct; a search      *)
(* adds a score or a _distance.                                             *)

RootNames == {"blob", "content", "dataframe", "id", "meta", "vector"}
Flags(names, empty) == PyDict([n \in names |-> PyBool(n \in empty)])

\* What a column physically holds: null, a placeholder, or a value
RootValue(n, profile, dims) ==
    CASE n = "id" ->
            IF profile = "null" THEN None
            ELSE IF profile = "placeholder" THEN PyStr("") ELSE PyStr("d1")
      [] n = "content" ->
            IF profile = "null" THEN None
            ELSE IF profile = "placeholder" THEN PyStr("") ELSE PyStr("hi")
      [] n = "dataframe" -> IF profile = "value" THEN Json(1) ELSE None
      [] n = "blob" -> IF profile = "value" THEN BlobDict(1) ELSE None
      [] n = "vector" ->
            IF profile = "null" THEN None
            ELSE PyList([i \in 1..dims |-> IF profile = "placeholder" THEN 0 ELSE 1])
      [] n = "meta" ->
            IF profile = "null" THEN None
            ELSE PyDict([k \in {"_isempty", "count"} |->
                    IF k = "_isempty" THEN Flags({"count"}, {})
                    ELSE IF profile = "placeholder" THEN None ELSE PyInt(5)])

CountSchemas == {_create_schema(DeclCount, PyInt(n)) : n \in 1..MaxDims}
NestedSchemas == {_create_schema(DeclNested, PyInt(n)) : n \in 1..MaxDims}

RootRows(sch) ==
    IF sch \notin CountSchemas THEN {}
    ELSE {PyDict([k \in RootNames \cup {"_isempty"} \cup extra |->
                CASE k = "_isempty" -> Flags(RootNames, empty)
                  [] k = "score" -> PyInt(1)
                  [] k = "_distance" -> PyInt(2)
                  [] OTHER -> RootValue(k, profile, FieldNamed(sch, "vector").type.list_size)]) :
            empty \in SUBSET RootNames,
            profile \in {"null", "placeholder", "value"},
            extra \in SUBSET {"score", "_distance"}}

SubStructs ==
    {None} \cup
    {PyDict([k \in {"_isempty", "when", "x"} |->
            CASE k = "_isempty" -> Flags({"when", "x"}, empty)
              [] k = "when" -> w
              [] k = "x" -> x]) :
        empty \in SUBSET {"when", "x"}, w \in {None, Datetime(1)}, x \in {None, PyInt(1)}}

MetaStructs ==
    {PyDict([k \in {"_isempty", "count", "name", "sub"} |->
            CASE k = "_isempty" -> Flags({"count", "name", "sub"}, empty)
              [] k = "count" -> c
              [] k = "name" -> n
              [] k = "sub" -> sub]) :
        empty \in SUBSET {"count", "name", "sub"}, c \in {None, PyInt(5)},
        n \in {None, PyStr("a")}, sub \in SubStructs}

MetaRows(sch) ==
    IF sch \notin NestedSchemas THEN {}
    ELSE {PyDict([k \in RootNames \cup {"_isempty"} |->
                CASE k = "_isempty" -> Flags(RootNames, empty)
                  [] k = "meta" -> m
                  [] OTHER -> RootValue(k, "value", FieldNamed(sch, "vector").type.list_size)]) :
            empty \in SUBSET {"meta"}, m \in MetaStructs}

Rows(sch) == RootRows(sch) \cup MetaRows(sch)

InitDecoder ==
    /\ schema \in Schemas
    /\ lance_dict \in Rows(schema)
    /\ document = None
    /\ doc_dict = None
    /\ decoded = None
    /\ pc = "row"
    /\ _metadata_schema = None /\ _embedding_dims = None /\ table = None /\ returned = None
    /\ filters = None /\ query = None /\ matched = None
    /\ retriever = None /\ args = None

NextDecoder == Decode

SpecDecoder == InitDecoder /\ [][NextDecoder]_vars

-----------------------------------------------------------------------------
(* The schema run: build the schema of a store's constructor arguments.     *)
(* The metadata struct is declared with its fields in any order, nested two *)
(* levels deep; embedding_dims is missing, invalid or valid.                 *)

\* the most fields a declared struct has
MaxFields == 2

PrimType(name) == IF name = "name" THEN StringType ELSE Int32Type

\* The sequences of at most MaxFields different names
NameSeqs(names) ==
    {q \in UNION {[1..n -> names] : n \in 0..MaxFields} :
        \A i, j \in DOMAIN q : i # j => q[i] # q[j]}

\* The structs of primitive fields, and of a field "sub" of one of the structs subs
StructsOf(names, subs) ==
    {Struct([i \in DOMAIN q |->
                IF q[i] = "sub" THEN Field("sub", st) ELSE Field(q[i], PrimType(q[i]))]) :
        q \in NameSeqs(names), st \in subs}

LeafDecls == StructsOf({"count", "name", "x"}, {None})
MidDecls == StructsOf({"count", "name", "x", "sub"}, LeafDecls)
TopDecls == StructsOf({"count", "name", "x", "sub"}, MidDecls)

DimsArgs == {None} \cup {PyInt(n) : n \in (0 - 1)..MaxDims}

InitSchema ==
    /\ _metadata_schema \in {None} \cup TopDecls
    /\ _embedding_dims \in DimsArgs
    /\ table = None /\ returned = None
    /\ schema = None /\ document = None /\ lance_dict = None
    /\ doc_dict = None /\ decoded = None
    /\ filters = None /\ query = None /\ matched = None
    /\ retriever = None /\ args = None
    /\ pc = "start"

\* schema = _create_schema(self._metadata_schema, self._embedding_dims)
CreateSchema ==
    /\ pc = "start"
    /\ schema' = _create_schema(_metadata_schema, _embedding_dims)
    /\ pc' = "built"
    /\ UNCHANGED <<document, lance_dict, doc_dict, decoded>>
    /\ UNCHANGED <<storeVars, filterVars>>

NextSchema == CreateSchema

SpecSchema == InitSchema /\ [][NextSchema]_vars

-----------------------------------------------------------------------------
(* The filter run: compile a filter, then read the where clause on a row of *)
(* a table of the nested metadata schema.                                   *)

FilterSchema == _create_schema(DeclNested, PyInt(1))

\* The rows of the table: every combination of flags and physical values of
\* meta.count and meta.sub, and of the root's content and vector
FilterMetas ==
    {PyDict([k \in {"_isempty", "count", "name", "sub"} |->
            CASE k = "_isempty" -> Flags({"count", "name", "sub"}, empty)
              [] k = "count" -> c
              [] k = "name" -> PyStr("a")
              [] k = "sub" -> sub]) :
        empty \in SUBSET {"count", "sub"}, c \in {None, PyInt(5)}, sub \in SubStructs}

FilterRows ==
    {PyDict([k \in RootNames \cup {"_isempty"} |->
            CASE k = "_isempty" -> Flags(RootNames, {})
              [] k = "meta" -> m
              [] OTHER -> RootValue(k, "value", 1)]) : m \in FilterMetas}
    \cup
    {PyDict([k \in RootNames \cup {"_isempty"} |->
            CASE k = "_isempty" -> Flags(RootNames, empty)
              [] k = "meta" -> m
              [] k \in {"content", "vector"} -> RootValue(k, profile, 1)
              [] OTHER -> RootValue(k, "value", 1)]) :
        empty \in SUBSET {"content", "vector"}, profile \in {"null", "placeholder", "value"},
        m \in {n \in FilterMetas : n.f["sub"] = None /\ n.f["count"] = None
                                    /\ n.f["_isempty"] = Flags({"count", "name", "sub"}, {"count", "sub"})}}

FilterFields == {<<"meta", "count">>, <<"meta", "name">>, <<"meta", "sub", "x">>,
                 <<"meta", "sub", "when">>, <<"content">>, <<"id">>, <<"vector">>, <<"meta">>}
FilterValues == {None, PyInt(1), PyInt(5), PyStr("a"), PyStr("hi"),
                 PyStr("2024-01-01T00:00:00"), PyBool(TRUE)}

Logical(operator, conditions) ==
    PyDict([k \in {"operator", "conditions"} |->
            IF k = "operator" THEN PyStr(operator) ELSE PyList(conditions)])

Comparison(field, operator, value) ==
    PyDict([k \in {"field", "operator", "value"} |->
            CASE k = "field" -> FieldName(field)
              [] k = "operator" -> PyStr(operator)
              [] k = "value" -> value])

\* The value lists of in and not in, and the operators that order
FilterLists == {PyList(<<PyInt(5)>>), PyList(<<PyInt(1), PyInt(5)>>),
                PyList(<<PyStr("a")>>), PyList(<<PyStr("hi"), PyStr("a")>>)}
OrderingOperators == {">", ">=", "<", "<="}

Filters ==
    {Comparison(F, op, v) : F \in FilterFields, op \in {"==", "!="}, v \in FilterValues}
    \cup {Comparison(F, op, V) : F \in FilterFields, op \in {"in", "not in"}, V \in FilterLists}
    \cup {Comparison(F, op, v) : F \in FilterFields, op \in OrderingOperators,
                                 v \in {None, PyInt(1), PyStr("2024-01-01T00:00:00")}}
    \cup {Logical("NOT", <<Comparison(F, "!=", None)>>) : F \in FilterFields}

InitFilter ==
    /\ schema = FilterSchema
    /\ lance_dict \in FilterRows
    /\ filters \in Filters
    /\ query = None /\ matched = None
    /\ retriever = None /\ args = None
    /\ document = None /\ doc_dict = None /\ decoded = None
    /\ _metadata_schema = None /\ _embedding_dims = None /\ table = None /\ returned = None
    /\ pc = "start"

\* query = convert_filters_to_where_clause(filters)
Compile ==
    /\ pc = "start"
    /\ query' = convert_filters_to_where_clause(filters)
    /\ pc' = "compiled"
    /\ UNCHANGED <<filters, matched, retriever, args, storeVars, codecVars>>

\* the engine reads where(query) on the row
Evaluate ==
    /\ pc = "compiled"
    /\ ~IsError(query)
    /\ matched' = EvalWhere(query, schema, lance_dict)
    /\ pc' = "evaluated"
    /\ UNCHANGED <<filters, query, retriever, args, storeVars, codecVars>>

NextFilter == Compile \/ Evaluate

SpecFilter == InitFilter /\ [][NextFilter]_vars

-----------------------------------------------------------------------------
(* The storage engine (lancedb) as the store uses it.  A table is           *)
(* [schema, rows, fts]: its pa.Schema, its rows in order, and whether it    *)
(* has a full-text index on content.                                        *)

Table(sch, rows, fts) == [schema |-> sch, rows |-> rows, fts |-> fts]

\* What the engine stores of a value handed to a column of a type, or its
\* refusal: a vector must have the declared length, a binary column takes no
\* dict, a timestamp scalar is stored as the instant it names
RECURSIVE Ingest(_, _)
Ingest(value, type) ==
    IF value = None THEN None
    ELSE IF IsStructType(type)
    THEN IF value.t # "dict" \/ DOMAIN value.f # Range(FieldNames(type.fields)) THEN LanceError
         ELSE Apply(LAMBDA stored :
                        IF \E n \in DOMAIN stored : IsError(stored[n]) THEN LanceError
                        ELSE PyDict(stored),
                    [n \in DOMAIN value.f |-> Ingest(value.f[n], FieldNamed(type.fields, n).type)])
    ELSE CASE type.kind = "list" ->
                IF value.t = "list" /\ Len(value.q) = type.list_size THEN value ELSE LanceError
           [] type.kind = "timestamp" ->
                IF value.t \in {"scalar", "datetime"} THEN Datetime(value.n) ELSE LanceError
           [] type.kind = "string" -> IF value.t \in {"str", "json"} THEN value ELSE LanceError
           [] type.kind = "int32" -> IF value.t = "int" THEN value ELSE LanceError
           [] type.kind = "bool" -> IF value.t = "bool" THEN value ELSE LanceError
           [] OTHER -> LanceError

\* The rows of a batch as the engine stores them; the batch is refused whole
IngestAll(doc_dicts, sch) ==
    Apply(LAMBDA stored :
            IF \E i \in DOMAIN stored : IsError(stored[i]) \/ stored[i].f["id"] = None
            THEN LanceError
            ELSE PyList(stored),
          [i \in DOMAIN doc_dicts |-> Ingest(doc_dicts[i], Struct(sch))])

IdsOf(rows) == {rows[i].f["id"] : i \in DOMAIN rows}

\* a merge that updates no row
MergeUpsert_appending(rows, new) == rows \o new

\* table.merge_insert("id").when_matched_update_all()
\*      .when_not_matched_insert_all().execute(new): the rows of the table
\* whose id is not in the batch, then the batch
MergeUpsert(rows, new) ==
    SelectSeq(rows, LAMBDA r : r.f["id"] \notin IdsOf(new)) \o new

\* table.merge_insert("id").when_not_matched_insert_all().execute(new): the
\* table, then the rows of the batch whose id is not in the table
MergeInsertNew(rows, new) ==
    rows \o SelectSeq(new, LAMBDA r : r.f["id"] \notin IdsOf(rows))

\* table.search().where(clause).to_list(), table.delete(clause): the rows on
\* which the clause is TRUE; the query's failure if it fails on the table
WhereFails(tbl, clause) ==
    \/ IsError(EvalWhere(clause, tbl.schema, None))
    \/ \E i \in DOMAIN tbl.rows : IsError(EvalWhere(clause, tbl.schema, tbl.rows[i]))
RowsWhere(tbl, clause) ==
    SelectSeq(tbl.rows, LAMBDA r : EvalWhere(clause, tbl.schema, r) = PyBool(TRUE))

\* to_list() of a search given no limit(0): "LanceDB defaults to a limit of
\* 10"; which ten rows is the engine's choice, their number is not
DefaultLimit == 10
Limited(rows) == IF Len(rows) <= DefaultLimit THEN rows ELSE SubSeq(rows, 1, DefaultLimit)
RowsNotWhere(tbl, clause) ==
    SelectSeq(tbl.rows, LAMBDA r : EvalWhere(clause, tbl.schema, r) # PyBool(TRUE))

-----------------------------------------------------------------------------
(* document_store.py: LanceDBDocumentStore *)

\* table_exists that never finds the table
table_exists_never(self) == FALSE

\* self._table_name in self.db.table_names()
table_exists(self) == self.table # None

InvalidInput == Error("ValueError: Please provide a list of Documents.")
DuplicateDocumentError == Error("DuplicateDocumentError")

\* isinstance(documents, Iterable), not a str, and every element a Document
IsDocumentList(documents) ==
    /\ documents.t = "list"
    /\ \A i \in DOMAIN documents.q : documents.q[i].t = "Document"

Outcome(tbl, ret) == [table |-> tbl, returned |-> ret]

\* A sequence of the elements of a set, as list(a_set) gives them
RECURSIVE ListOf(_)
ListOf(set) ==
    IF set = {} THEN <<>>
    ELSE Apply(LAMBDA x : <<x>> \o ListOf(set \ {x}), CHOOSE x \in set : TRUE)

\* write_documents from "Actually do the insert" on: tbl is the table opened
\* or created, doc_dicts the encoded rows
InsertByPolicy(tbl, doc_dicts, policy) ==
    Apply(LAMBDA new :
        LET unique_new_ids == {doc_dicts[i].f["id"] : i \in DOMAIN doc_dicts}
            by_id == in_(FieldName(<<"id">>), PyList(ListOf(unique_new_ids)))
            indexed(rows) == Table(tbl.schema, rows, TRUE)
        IN  IF policy \in {"OVERWRITE", "NONE"}
            THEN IF IsError(new) THEN Outcome(tbl, new)
                 ELSE Outcome(indexed(MergeUpsert(tbl.rows, new.q)),
                              PyInt(Cardinality(unique_new_ids)))
            ELSE IF WhereFails(tbl, by_id) THEN Outcome(tbl, LanceError)
            ELSE Apply(LAMBDA existing_ids :
                    IF policy = "SKIP"
                    THEN IF IsError(new) THEN Outcome(tbl, new)
                         ELSE Outcome(indexed(MergeInsertNew(tbl.rows, new.q)),
                                      PyInt(Cardinality(unique_new_ids \ existing_ids)))
                    ELSE IF existing_ids # {} THEN Outcome(tbl, DuplicateDocumentError)
                    ELSE IF IsError(new) THEN Outcome(tbl, new)
                    ELSE Outcome(indexed(MergeInsertNew(tbl.rows, new.q)),
                                 PyInt(Cardinality(unique_new_ids))),
                  IdsOf(Limited(RowsWhere(tbl, by_id)))),
        IngestAll(doc_dicts, tbl.schema))

\* A LanceDBDocumentStore: its constructor's arguments and the table of its
\* database (None when there is none)
Store(metadata_schema, embedding_dims, tbl) ==
    [_metadata_schema |-> metadata_schema, _embedding_dims |-> embedding_dims, table |-> tbl]

\* write_documents(self, documents, policy): the table it leaves and what it
\* returns or raises
write_documents(self, documents, policy) ==
    IF ~IsDocumentList(documents) THEN Outcome(self.table, InvalidInput)
    ELSE Apply(LAMBDA sch :
            IF sch \in ConfigErrors THEN Outcome(self.table, sch)
            ELSE Apply(LAMBDA doc_dicts :
                    LET opened == IF table_exists(self) THEN self.table
                                  ELSE Table(sch, <<>>, FALSE)
                        raised == {i \in DOMAIN doc_dicts : IsError(doc_dicts[i])}
                    IN  IF raised # {}
                        THEN Outcome(opened, doc_dicts[CHOOSE i \in raised : \A j \in raised : i <= j])
                        ELSE InsertByPolicy(opened, doc_dicts, policy),
                  [i \in DOMAIN documents.q |-> convert_document_to_lancedb(documents.q[i], sch)]),
          IF table_exists(self) THEN self.table.schema
          ELSE _create_schema(self._metadata_schema, self._embedding_dims))

\* count_documents(self)
count_documents(self) ==
    IF table_exists(self) THEN PyInt(Len(self.table.rows)) ELSE PyInt(0)

\* delete_documents(self, object_ids)
delete_documents(self, object_ids) ==
    IF ~table_exists(self) THEN Outcome(self.table, None)
    ELSE Apply(LAMBDA where_clause :
                IF WhereFails(self.table, where_clause) THEN Outcome(self.table, LanceError)
                ELSE Outcome(Table(self.table.schema, RowsNotWhere(self.table, where_clause),
                                   self.table.fts), None),
               in_(FieldName(<<"id">>), PyList(object_ids)))

\* [convert_lancedb_to_document(doc_dict, table.schema) for doc_dict in res]:
\* the Documents, or the first exception
DecodeAll(res, sch) ==
    Apply(LAMBDA docs :
            LET raised == {i \in DOMAIN docs : IsError(docs[i])}
            IN  IF raised # {} THEN docs[CHOOSE i \in raised : \A j \in raised : i <= j]
                ELSE PyList(docs),
          [i \in DOMAIN res |-> convert_lancedb_to_document(res[i], sch)])

\* filter_documents that opens the table without asking whether it exists
filter_documents_unchecked(self, condition) ==
    IF ~table_exists(self) THEN LanceError
    ELSE DecodeAll(self.table.rows, self.table.schema)

\* filter_documents(self, filters): the list it returns, or what it raises
filter_documents(self, condition) ==
    IF ~table_exists(self) THEN PyList(<<>>)
    ELSE IF Truthy(condition)
    THEN Apply(LAMBDA where_clause :
                IF IsError(where_clause) THEN where_clause
                ELSE IF WhereFails(self.table, where_clause) THEN LanceError
                ELSE DecodeAll(RowsWhere(self.table, where_clause), self.table.schema),
               convert_filters_to_where_clause(condition))
    ELSE DecodeAll(self.table.rows, self.table.schema)

\* The squared distance of a stored vector from a query vector
RECURSIVE SumSquares(_, _, _)
SumSquares(v, q, i) ==
    IF i > Len(v) THEN 0 ELSE (v[i] - q[i]) * (v[i] - q[i]) + SumSquares(v, q, i + 1)
Distance(row, q) == SumSquares(row.f["vector"].q, q, 1)

\* table.search(vector): the rows by distance from the vector, each with its
\* _distance
Without(rows, i) == [j \in 1..(Len(rows) - 1) |-> IF j < i THEN rows[j] ELSE rows[j + 1]]
RECURSIVE Nearest(_, _)
Nearest(rows, q) ==
    IF rows = <<>> THEN <<>>
    ELSE Apply(LAMBDA i :
                <<DictWith(rows[i], "_distance", PyInt(Distance(rows[i], q)))>>
                    \o Nearest(Without(rows, i), q),
               CHOOSE i \in DOMAIN rows :
                    \A j \in DOMAIN rows :
                        \/ Distance(rows[i], q) < Distance(rows[j], q)
                        \/ Distance(rows[i], q) = Distance(rows[j], q) /\ i <= j)

\* table.search(text): the rows whose content holds the text, each with its
\* score; a content is one word here
Matching(rows, text) ==
    [i \in DOMAIN SelectSeq(rows, LAMBDA r : r.f["content"] = text) |->
        DictWith(SelectSeq(rows, LAMBDA r : r.f["content"] = text)[i], "score", PyInt(1))]

\* table.search(query): a text needs the full-text index, a vector the length
\* of the vector column
SearchFails(tbl, qry) ==
    \/ qry.t = "str" /\ ~tbl.fts
    \/ qry.t = "list" /\ Len(qry.q) # FieldNamed(tbl.schema, "vector").type.list_size
Search(rows, qry) ==
    IF ~Truthy(qry) THEN rows
    ELSE IF qry.t = "str" THEN Matching(rows, qry)
    ELSE Nearest(rows, qry.q)

\* limit(top_k) of a search; limit(0) sets no limit
Limit(rows, top_k) ==
    IF top_k = 0 \/ Len(rows) <= top_k THEN rows ELSE SubSeq(rows, 1, top_k)

TopKError == Error("ValueError: top_k must be greater than 0")

\* perform_query(self, query, filters, top_k): the list it returns, or what it
\* raises
perform_query(self, qry, condition, top_k) ==
    IF Truthy(top_k) /\ top_k.n <= 0 THEN TopKError
    ELSE IF ~table_exists(self) THEN PyList(<<>>)
    ELSE IF Truthy(qry) /\ SearchFails(self.table, qry) THEN LanceError
    ELSE Apply(LAMBDA where_clause :
                IF IsError(where_clause) THEN where_clause
                ELSE IF where_clause # None /\ WhereFails(self.table, where_clause) THEN LanceError
                ELSE DecodeAll(Limit(Search(IF where_clause = None THEN self.table.rows
                                            ELSE RowsWhere(self.table, where_clause),
                                            qry),
                                     IF Truthy(top_k) THEN top_k.n ELSE 0),
                               self.table.schema),
               IF Truthy(condition) THEN convert_filters_to_where_clause(condition) ELSE None)

-----------------------------------------------------------------------------
(* fts_retriever.py, embedding_retriever.py: the retrievers.  A retriever   *)
(* is [kind, _filters, _top_k]; an argument a call leaves out is NotPassed. *)

NotPassed == [t |-> "notpassed"]
Given(argument, default) == IF argument = NotPassed THEN default ELSE argument

Retriever(kind, condition, top_k) ==
    [t |-> "retriever", kind |-> kind, _filters |-> condition, _top_k |-> top_k]

\* LanceDBFTSRetriever(document_store, filters=None, top_k=10) and
\* LanceDBEmbeddingRetriever(document_store, filters=None, top_k=10)
NewRetriever(kind, condition, top_k) ==
    Apply(LAMBDA k :
            IF Truthy(k) /\ k.n <= 0 THEN TopKError
            ELSE Apply(LAMBDA f : Retriever(kind, IF Truthy(f) THEN f ELSE EmptyDict, k),
                       Given(condition, None)),
          Given(top_k, PyInt(10)))

DocumentsOutput(docs) == IF IsError(docs) THEN docs ELSE PyDict([k \in {"documents"} |-> docs])

\* LanceDBFTSRetriever.run(query, filters=None, top_k=10)
fts_run(self, store, qry, condition, top_k) ==
    Apply(LAMBDA f :
        Apply(LAMBDA k :
                IF ~Truthy(qry) THEN Error("ValueError: Query should be a non-empty string")
                ELSE DocumentsOutput(perform_query(store, qry, f, k)),
              IF Truthy(Given(top_k, PyInt(10))) THEN Given(top_k, PyInt(10)) ELSE self._top_k),
        IF Truthy(Given(condition, None)) THEN condition ELSE self._filters)

\* from lancedb_haystack.filters import
\* _convert_filters_to_where_clause_and_params: filters.py defines no such name
_convert_filters_to_where_clause_and_params(condition) == Error("ImportError")

\* The body of the loop of LanceDBEmbeddingRetriever.run
embedding_doc(row) ==
    from_dict(DictWith(DictWithout(DictWith(DictWithout(row, "_distance"),
                                            "score", row.f["_distance"]),
                                   "vector"),
                       "embedding", row.f["vector"]))

\* LanceDBEmbeddingRetriever.run(query_embedding, filters=None, top_k=None)
embedding_run(self, store, query_embedding, condition, top_k) ==
    Apply(LAMBDA f :
        Apply(LAMBDA k :
                IF ~table_exists(store) THEN PyList(<<>>)
                ELSE IF SearchFails(store.table, query_embedding) THEN LanceError
                ELSE Apply(LAMBDA filter_query :
                        IF IsError(filter_query) THEN filter_query
                        ELSE Apply(LAMBDA docs :
                                LET raised == {i \in DOMAIN docs : IsError(docs[i])}
                                IN  IF raised # {}
                                    THEN docs[CHOOSE i \in raised : \A j \in raised : i <= j]
                                    ELSE DocumentsOutput(PyList(docs)),
                              [i \in DOMAIN Limit(Nearest(store.table.rows, query_embedding.q),
                                                  IF Truthy(k) THEN k.n ELSE DefaultLimit) |->
                                    embedding_doc(Limit(Nearest(store.table.rows, query_embedding.q),
                                                        IF Truthy(k) THEN k.n ELSE DefaultLimit)[i])]),
                      IF Truthy(f) THEN _convert_filters_to_where_clause_and_params(f) ELSE None),
              IF Truthy(Given(top_k, None)) THEN top_k ELSE self._top_k),
        IF Truthy(Given(condition, None)) THEN condition ELSE self._filters)

-----------------------------------------------------------------------------
(* The store run: a store is constructed on a database whose table exists   *)
(* (made by an earlier store) or not, with any constructor arguments, and   *)
(* is then called.                                                          *)

\* the most rows the table is let grow to
MaxRows == 3

StoreDoc(id, content, meta, embedding) ==
    Document(PyStr(id), PyStr(content), None, None, meta, None, embedding)

\* d1 in two versions and d2; the embedding of the second fits a vector of length 1
StoreDocs ==
    {StoreDoc("d1", "a", EmptyDict, None),
     StoreDoc("d1", "b", MkDict([count |-> PyInt(5)]), PyList(<<1>>)),
     StoreDoc("d2", "a", MkDict([count |-> PyInt(5)]), None)}

\* The documents arguments: lists of one or two Documents, and what is no
\* list of Documents
DocumentLists ==
    {PyList(<<a>>) : a \in StoreDocs}
    \cup {PyList(<<a, b>>) : a, b \in StoreDocs}
    \cup {None, PyStr("abc"), PyList(<<PyStr("abc")>>)}
    \cup {PyList(<<a, PyInt(1)>>) : a \in StoreDocs}
    \cup {PyList(<<StoreDoc("d'3", "a", EmptyDict, None)>>)}

Policies == {"NONE", "OVERWRITE", "SKIP", "FAIL"}

IdLists == {<<PyStr("d1")>>, <<PyStr("d2")>>, <<PyStr("d1"), PyStr("d2")>>, <<PyStr("zz")>>,
            <<PyStr("d'3")>>}

Init ==
    /\ _metadata_schema \in {None, DeclCount}
    /\ _embedding_dims \in DimsArgs
    /\ table \in {None} \cup {Table(sch, <<>>, FALSE) : sch \in CountSchemas}
    /\ returned = None
    /\ schema = None /\ document = None /\ lance_dict = None
    /\ doc_dict = None /\ decoded = None
    /\ filters = None /\ query = None /\ matched = None
    /\ retriever = None /\ args = None
    /\ pc = "store"

\* the store of the run
Self == Store(_metadata_schema, _embedding_dims, table)

WriteDocuments ==
    /\ pc = "store"
    /\ \E documents \in DocumentLists, policy \in Policies :
        /\ (table_exists(Self) /\ documents.t = "list") =>
                Len(table.rows) + Len(documents.q) <= MaxRows
        /\ \E r \in {write_documents(Self, documents, policy)} :
            /\ table' = r.table
            /\ returned' = r.returned
    /\ UNCHANGED <<_metadata_schema, _embedding_dims, codecVars, filterVars, pc>>

CountDocuments ==
    /\ pc = "store"
    /\ returned' = count_documents(Self)
    /\ UNCHANGED <<_metadata_schema, _embedding_dims, table, codecVars, filterVars, pc>>

DeleteDocuments ==
    /\ pc = "store"
    /\ \E object_ids \in IdLists :
        \E r \in {delete_documents(Self, object_ids)} :
            /\ table' = r.table
            /\ returned' = r.returned
    /\ UNCHANGED <<_metadata_schema, _embedding_dims, codecVars, filterVars, pc>>

Next == WriteDocuments \/ CountDocuments \/ DeleteDocuments

Spec == Init /\ [][Next]_vars

-----------------------------------------------------------------------------
(* The skip run: batches of up to MaxBatch documents written under SKIP to  *)
(* a store that starts without a table.                                      *)

MaxBatch == 11

\* The documents k1 .. kMaxBatch and the batches of consecutive ones
BatchDoc(i) == StoreDoc("k" \o ToString(i), "a", EmptyDict, None)
SkipBatches ==
    {PyList([i \in 1..(b - a + 1) |-> BatchDoc(a + i - 1)]) : a \in 1..2, b \in 2..MaxBatch}

InitSkip ==
    /\ _metadata_schema = DeclCount
    /\ _embedding_dims = PyInt(1)
    /\ table = None
    /\ returned = None
    /\ schema = None /\ document = None /\ lance_dict = None
    /\ doc_dict = None /\ decoded = None
    /\ filters = None /\ query = None /\ matched = None
    /\ retriever = None /\ args = None
    /\ pc = "skip"

\* write_documents(documents, policy=DuplicatePolicy.SKIP)
WriteSkipDocuments ==
    /\ pc = "skip"
    /\ \E documents \in SkipBatches :
        \E r \in {write_documents(Self, documents, "SKIP")} :
            /\ table' = r.table
            /\ returned' = r.returned
    /\ UNCHANGED <<_metadata_schema, _embedding_dims, codecVars, filterVars, pc>>

NextSkip == WriteSkipDocuments

SpecSkip == InitSkip /\ [][NextSkip]_vars

-----------------------------------------------------------------------------
(* The read run: a store is constructed on a database without a table, with *)
(* good or missing constructor arguments; it is written to, read through    *)
(* every read path and deleted from, and retrievers are constructed on it.  *)

\* The arguments of a call
Call(op, documents, condition, qry, top_k) ==
    [op |-> op, documents |-> documents, filters |-> condition, query |-> qry, top_k |-> top_k]

ReadLists ==
    {PyList(<<StoreDoc("d1", "a", EmptyDict, None)>>),
     PyList(<<StoreDoc("d1", "b", MkDict([count |-> PyInt(5)]), PyList(<<1>>)),
              StoreDoc("d2", "a", MkDict([count |-> PyInt(5)]), None)>>),
     PyList(<<StoreDoc("d1", "a", EmptyDict, None),
              StoreDoc("d2", "a", MkDict([count |-> PyInt(5)]), None)>>),
     None,
     PyList(<<PyStr("abc")>>)}
ReadFilters == {None, Comparison(<<"meta", "count">>, "==", PyInt(5))}
ReadQueries == {None, PyStr("a"), PyList(<<1>>)}
ReadTopKs == {None, PyInt(0 - 1), PyInt(1)}
RunTopKs == {NotPassed, None, PyInt(1), PyInt(2)}
NewTopKs == {NotPassed, PyInt(0 - 1), PyInt(1)}

InitRead ==
    /\ _metadata_schema \in {None, DeclCount}
    /\ _embedding_dims \in {None, PyInt(1)}
    /\ table = None
    /\ returned = None
    /\ schema = None /\ document = None /\ lance_dict = None
    /\ doc_dict = None /\ decoded = None
    /\ filters = None /\ query = None /\ matched = None
    /\ retriever = None
    /\ args = Call("__init__", None, None, None, None)
    /\ pc = "read"

ReadFrame == <<_metadata_schema, _embedding_dims, codecVars, filters, query, matched, pc>>

Write ==
    /\ pc = "read"
    /\ \E documents \in ReadLists :
        \E r \in {write_documents(Self, documents, "NONE")} :
            /\ table' = r.table
            /\ returned' = r.returned
            /\ args' = Call("write_documents", documents, None, None, None)
    /\ UNCHANGED <<ReadFrame, retriever>>

Count ==
    /\ pc = "read"
    /\ returned' = count_documents(Self)
    /\ args' = Call("count_documents", None, None, None, None)
    /\ UNCHANGED <<ReadFrame, retriever, table>>

Delete ==
    /\ pc = "read"
    /\ \E r \in {delete_documents(Self, <<PyStr("d1")>>)} :
        /\ table' = r.table
        /\ returned' = r.returned
    /\ args' = Call("delete_documents", PyList(<<PyStr("d1")>>), None, None, None)
    /\ UNCHANGED <<ReadFrame, retriever>>

Filter ==
    /\ pc = "read"
    /\ \E condition \in ReadFilters :
        /\ returned' = filter_documents(Self, condition)
        /\ args' = Call("filter_documents", None, condition, None, None)
    /\ UNCHANGED <<ReadFrame, retriever, table>>

PerformQuery ==
    /\ pc = "read"
    /\ \E qry \in ReadQueries, condition \in ReadFilters, top_k \in ReadTopKs :
        /\ returned' = perform_query(Self, qry, condition, top_k)
        /\ args' = Call("perform_query", None, condition, qry, top_k)
    /\ UNCHANGED <<ReadFrame, retriever, table>>

NewFTSRetriever ==
    /\ pc = "read"
    /\ \E top_k \in NewTopKs :
        \E r \in {NewRetriever("fts", NotPassed, top_k)} :
            /\ returned' = r
            /\ retriever' = IF IsError(r) THEN retriever ELSE r
            /\ args' = Call("LanceDBFTSRetriever", None, NotPassed, None, top_k)
    /\ UNCHANGED <<ReadFrame, table>>

NewEmbeddingRetriever ==
    /\ pc = "read"
    /\ \E top_k \in NewTopKs, condition \in {NotPassed} \cup (ReadFilters \ {None}) :
        \E r \in {NewRetriever("embedding", condition, top_k)} :
            /\ returned' = r
            /\ retriever' = IF IsError(r) THEN retriever ELSE r
            /\ args' = Call("LanceDBEmbeddingRetriever", None, condition, None, top_k)
    /\ UNCHANGED <<ReadFrame, table>>

FTSRun ==
    /\ pc = "read"
    /\ retriever # None
    /\ retriever.kind = "fts"
    /\ \E qry \in {PyStr("a"), PyStr("")}, top_k \in RunTopKs :
        /\ returned' = fts_run(retriever, Self, qry, NotPassed, top_k)
        /\ args' = Call("LanceDBFTSRetriever.run", None, NotPassed, qry, top_k)
    /\ UNCHANGED <<ReadFrame, retriever, table>>

EmbeddingRun ==
    /\ pc = "read"
    /\ retriever # None
    /\ retriever.kind = "embedding"
    /\ \E top_k \in RunTopKs :
        /\ returned' = embedding_run(retriever, Self, PyList(<<1>>), NotPassed, top_k)
        /\ args' = Call("LanceDBEmbeddingRetriever.run", None, NotPassed, PyList(<<1>>), top_k)
    /\ UNCHANGED <<ReadFrame, retriever, table>>

NextRead ==
    \/ Write \/ Count \/ Delete \/ Filter \/ PerformQuery
    \/ NewFTSRetriever \/ NewEmbeddingRetriever \/ FTSRun \/ EmbeddingRun

SpecRead == InitRead /\ [][NextRead]_vars

-----------------------------------------------------------------------------
(* schema/serialization.py: a metadata struct as a dict and back.  pyarrow  *)
(* fields carry a nullable flag and metadata besides name and type;         *)
(* pa.field(name, type) is the nullable field without metadata.             *)

\* pa.field(name, type, nullable, metadata): metadata is kept as bytes
Bytes(text) == [t |-> "bytes", s |-> text]
AsBytesMap(metadata) ==
    IF metadata = None THEN None
    ELSE PyDict([k \in {"b'" \o key \o "'" : key \in DOMAIN metadata.f} |->
                    Bytes((CHOOSE key \in DOMAIN metadata.f : k = "b'" \o key \o "'"))])
FieldWith(name, type, nullable, metadata) ==
    IF nullable = PyBool(TRUE) /\ metadata = None THEN Field(name, type)
    ELSE [name |-> name, type |-> type, nullable |-> nullable, metadata |-> metadata]

\* field.nullable, field.metadata
Nullable(field) == IF "nullable" \in DOMAIN field THEN field.nullable ELSE PyBool(TRUE)
Metadata(field) == IF "metadata" \in DOMAIN field THEN field.metadata ELSE None

\* str(type) of a type that is no struct
TypeStr(type) ==
    CASE type.kind = "float32" -> "float"
      [] type.kind = "float64" -> "double"
      [] type.kind = "timestamp" -> "timestamp[s]"
      [] OTHER -> type.kind

\* getattr(pa, name)(): the factories that take no argument; pa.timestamp
\* needs a unit; a name with a bracket is no attribute
TypeFactories == {"string", "int32", "int64", "float32", "float64", "binary"}
TypeNamed(name) ==
    IF name \in TypeFactories THEN Prim(name)
    ELSE IF name = "timestamp" THEN Error("TypeError")
    ELSE Error("AttributeError")

\* The first exception among the items of a list, or the list
FirstRaised(items) ==
    LET raised == {i \in DOMAIN items : items[i] \in {Error("TypeError"), Error("AttributeError")}}
    IN  IF raised # {} THEN items[CHOOSE i \in raised : \A j \in raised : i <= j]
        ELSE PyList(items)

RECURSIVE field_to_dict(_)
field_to_dict(field) ==
    LET field_dict == [k \in {"name", "type", "nullable", "metadata"} |->
                        CASE k = "name" -> PyStr(field.name)
                          [] k = "type" -> PyStr(TypeStr(field.type))
                          [] k = "nullable" -> Nullable(field)
                          [] k = "metadata" -> Metadata(field)]
    IN  IF IsStructType(field.type)
        THEN PyDict([k \in DOMAIN field_dict \cup {"children"} |->
                        CASE k = "type" -> PyStr("struct")
                          [] k = "children" ->
                                PyList([i \in DOMAIN field.type.fields |->
                                            field_to_dict(field.type.fields[i])])
                          [] OTHER -> field_dict[k]])
        ELSE PyDict(field_dict)

pyarrow_struct_to_dict(struct_type) ==
    LET kept == SelectSeq(struct_type.fields, LAMBDA child : child.name # "_isempty")
    IN  PyDict([k \in {"type", "children"} |->
                    IF k = "type" THEN PyStr("struct")
                    ELSE PyList([i \in DOMAIN kept |-> field_to_dict(kept[i])])])

RECURSIVE dict_to_pyarrow_struct(_)
dict_to_field(field_dict) ==
    Apply(LAMBDA field_type :
            IF field_type \in {Error("TypeError"), Error("AttributeError")} THEN field_type
            ELSE FieldWith(field_dict.f["name"].s, field_type, field_dict.f["nullable"],
                           AsBytesMap(field_dict.f["metadata"])),
          IF field_dict.f["type"].s = "struct" THEN dict_to_pyarrow_struct(field_dict)
          ELSE TypeNamed(field_dict.f["type"].s))

dict_to_pyarrow_struct(struct_dict) ==
    Apply(LAMBDA children : IF children.t = "error" THEN children ELSE Struct(children.q),
          FirstRaised([i \in DOMAIN struct_dict.f["children"].q |->
                            dict_to_field(struct_dict.f["children"].q[i])]))

-----------------------------------------------------------------------------
(* The serialization run: a struct to its dict and back, and a dict to its  *)
(* struct and back.                                                          *)

SerialTypes == {StringType, Int32Type, Prim("int64"), BinaryType, TimestampType,
                Struct(<<Field("x", Int32Type)>>),
                Struct(<<Field("x", Int32Type), Field("y", Struct(<<Field("z", StringType)>>))>>)}

SerialFields ==
    {FieldWith("a", type, nullable, None) : type \in SerialTypes, nullable \in {PyBool(TRUE), PyBool(FALSE)}}

\* Metadata structs as declared, and two as _prepare_metadata_schema leaves them
SerialStructs ==
    {Struct(<<f>>) : f \in SerialFields}
    \cup {Struct(<<f, Field("b", Int32Type)>>) : f \in SerialFields}
    \cup {_prepare_metadata_schema(DeclCount), _prepare_metadata_schema(DeclNested)}

\* A child of a SchemaDict
ChildDict(name, type, nullable, metadata, children) ==
    MkDict([name |-> PyStr(name), type |-> PyStr(type), nullable |-> nullable,
            metadata |-> metadata, children |-> children])

LeafNames == {"string", "int32", "int64", "float32", "float64", "binary", "timestamp[s]"}
LeafDicts ==
    {ChildDict("a", type, nullable, metadata, Absent) :
        type \in LeafNames, nullable \in {PyBool(TRUE), PyBool(FALSE)},
        metadata \in {None, PyDict([k \in {"unit"} |-> PyStr("m")])}}
StructDicts ==
    {ChildDict("s", "struct", PyBool(TRUE), None, PyList(<<c>>)) : c \in LeafDicts}

SchemaDict(children) ==
    PyDict([k \in {"type", "children"} |-> IF k = "type" THEN PyStr("struct") ELSE PyList(children)])
SchemaDicts ==
    {SchemaDict(<<c>>) : c \in LeafDicts \cup StructDicts}
    \cup {SchemaDict(<<ChildDict("b", "int32", PyBool(TRUE), None, Absent), c>>) : c \in StructDicts}

InitSerialization ==
    /\ \/ /\ _metadata_schema \in SerialStructs
          /\ returned = None
          /\ pc = "struct"
       \/ /\ _metadata_schema = None
          /\ returned \in SchemaDicts
          /\ pc = "dict"
    /\ decoded = None
    /\ _embedding_dims = None /\ table = None
    /\ schema = None /\ document = None /\ lance_dict = None /\ doc_dict = None
    /\ filters = None /\ query = None /\ matched = None
    /\ retriever = None /\ args = None

\* LanceDBDocumentStore.to_dict: the struct of the store as a dict
ToDict ==
    /\ \/ /\ pc = "struct"
          /\ returned' = pyarrow_struct_to_dict(_metadata_schema)
          /\ pc' = "struct-dict"
          /\ UNCHANGED decoded
       \/ /\ pc = "dict-struct"
          /\ _metadata_schema \notin {Error("TypeError"), Error("AttributeError")}
          /\ decoded' = pyarrow_struct_to_dict(_metadata_schema)
          /\ pc' = "dict-struct-dict"
          /\ UNCHANGED returned
    /\ UNCHANGED <<_metadata_schema, _embedding_dims, table, schema, document, lance_dict,
                   doc_dict, filterVars>>

\* LanceDBDocumentStore.from_dict: the dict as the struct of a store
FromDict ==
    /\ \/ /\ pc = "dict"
          /\ _metadata_schema' = dict_to_pyarrow_struct(returned)
          /\ pc' = "dict-struct"
          /\ UNCHANGED decoded
       \/ /\ pc = "struct-dict"
          /\ decoded' = dict_to_pyarrow_struct(returned)
          /\ pc' = "struct-dict-struct"
          /\ UNCHANGED _metadata_schema
    /\ UNCHANGED <<_embedding_dims, table, returned, schema, document, lance_dict,
                   doc_dict, filterVars>>

NextSerialization == ToDict \/ FromDict

SpecSerialization == InitSerialization /\ [][NextSerialization]_vars

-----------------------------------------------------------------------------
(* The compiler run: filter trees, well-formed and not, are compiled.  A    *)
(* tree holds at most one node that is not well-formed, at the top, or      *)
(* first or last among its siblings one or two levels down.                 *)

\* A dict of the keys given that are not Absent
Node(field, operator, value, conditions) ==
    MkDict([field |-> field, operator |-> operator, value |-> value, conditions |-> conditions])

CountField == FieldName(<<"meta", "count">>)

\* Comparisons that are well-formed; the second names the metadata struct itself
GoodNodes ==
    {Comparison(<<"meta", "count">>, "==", PyInt(5)),
     Comparison(<<"meta">>, "==", None),
     Comparison(<<"meta", "name">>, "in", PyList(<<PyStr("a")>>)),
     Comparison(<<"meta", "sub", "when">>, ">=", PyStr("2024-01-01T00:00:00"))}

\* Nodes with a key missing, an unknown operator, or a value the operator
\* does not take
InvalidNodes ==
    {Node(CountField, Absent, PyInt(5), Absent),
     Node(Absent, Absent, Absent, PyList(<<Comparison(<<"meta", "count">>, "==", PyInt(5))>>)),
     Node(Absent, PyStr("AND"), Absent, Absent),
     Node(CountField, PyStr("=="), Absent, Absent),
     Logical("XOR", <<Comparison(<<"meta", "count">>, "==", PyInt(5))>>),
     Comparison(<<"meta", "count">>, "~", PyInt(5)),
     Comparison(<<"meta", "count">>, "in", PyInt(5)),
     Comparison(<<"meta", "name">>, "not in", PyStr("a")),
     Comparison(<<"meta", "name">>, ">", PyStr("hi")),
     Comparison(<<"meta", "count">>, "<=", PyList(<<PyInt(1)>>)),
     Comparison(<<"meta", "count">>, "<", EmptyDict),
     Comparison(<<"meta", "count">>, ">=", DataFrame(1))}

\* Logical nodes with no conditions
EmptyNodes == {Logical(op, <<>>) : op \in {"AND", "OR", "NOT"}}

LogicalOperators == {"AND", "OR", "NOT"}

\* The trees with node n one level down, and two levels down
Around(n) ==
    {Logical(op, cs) : op \in LogicalOperators,
                       cs \in {<<n>>} \cup {<<g, n>> : g \in GoodNodes}
                                      \cup {<<n, g>> : g \in GoodNodes}}

CompileTrees ==
    LET bad == InvalidNodes \cup EmptyNodes
        level1 == UNION {Around(n) : n \in bad \cup GoodNodes}
        level2 == UNION {Around(t) : t \in {u \in level1 : Len(u.f["conditions"].q) = 2
                                                /\ u.f["operator"].s # "OR"}}
    IN  bad \cup GoodNodes \cup level1 \cup level2

InitCompile ==
    /\ filters \in CompileTrees
    /\ query = None /\ matched = None
    /\ retriever = None /\ args = None
    /\ schema = None /\ lance_dict = None
    /\ document = None /\ doc_dict = None /\ decoded = None
    /\ _metadata_schema = None /\ _embedding_dims = None /\ table = None /\ returned = None
    /\ pc = "start"

NextCompile == Compile

SpecCompile == InitCompile /\ [][NextCompile]_vars

-----------------------------------------------------------------------------
(* The query run: a store with no table is given documents, then asked for  *)
(* those a filter selects.                                                   *)

QueryMetas ==
    {MkDict([count |-> c, name |-> n]) :
        c \in {Absent, None, PyInt(1), PyInt(5)}, n \in {Absent, PyStr("a")}}

\* One or two documents with distinct ids
QueryDocumentLists ==
    {PyList(<<StoreDoc("d1", "a", m, None)>>) : m \in QueryMetas}
    \cup {PyList(<<StoreDoc("d1", "a", m, None), StoreDoc("d2", "b", n, None)>>) :
            m, n \in QueryMetas}

QueryComparisons ==
    {Comparison(<<"meta", "count">>, op, v) : op \in {"==", "!="}, v \in {None, PyInt(5)}}
    \cup {Comparison(<<"meta", "name">>, op, PyStr("a")) : op \in {"==", "!="}}

QueryFilters ==
    {None, EmptyDict}
    \cup {Logical(op, <<c>>) : op \in {"AND", "OR", "NOT"}, c \in QueryComparisons}
    \cup {Logical(op, <<c, d>>) : op \in {"AND", "OR", "NOT"}, c, d \in QueryComparisons}

InitQuery ==
    /\ _metadata_schema = DeclNested
    /\ _embedding_dims = PyInt(1)
    /\ table = None
    /\ returned = None
    /\ document \in QueryDocumentLists
    /\ filters \in QueryFilters
    /\ schema = None /\ lance_dict = None /\ doc_dict = None /\ decoded = None
    /\ query = None /\ matched = None
    /\ retriever = None /\ args = None
    /\ pc = "query"

\* write_documents(document): the documents of the run, default policy
WriteQueryDocuments ==
    /\ pc = "query"
    /\ \E r \in {write_documents(Self, document, "NONE")} :
        /\ table' = r.table
        /\ returned' = r.returned
    /\ pc' = "written"
    /\ UNCHANGED <<_metadata_schema, _embedding_dims, codecVars, filterVars>>

\* filter_documents(filters)
FilterDocuments ==
    /\ pc = "written"
    /\ returned' = filter_documents(Self, filters)
    /\ pc' = "filtered"
    /\ UNCHANGED <<_metadata_schema, _embedding_dims, table, codecVars, filterVars>>

NextQuery == WriteQueryDocuments \/ FilterDocuments

SpecQuery == InitQuery /\ [][NextQuery]_vars

-----------------------------------------------------------------------------
(* Properties of the codec run *)

MetaType(sch) == FieldNamed(sch, "meta").type
Dims(sch) == FieldNamed(sch, "vector").type.list_size
Declared(type) == SelectSeq(type.fields, LAMBDA f : f.name # "_isempty")
DeclaredNames(type) == Range(FieldNames(Declared(type)))

\* True in the states of a codec run whose encoding returned a row
Encoded == document # None /\ pc = "encoded" /\ ~IsError(lance_dict)

\* Every key of the metadata, at every nesting level, is declared
RECURSIVE AllKeysDeclared(_, _)
AllKeysDeclared(value, type) ==
    IF ~IsStructType(type) \/ value.t # "dict" THEN TRUE
    ELSE \A k \in DOMAIN value.f :
            /\ k \in DeclaredNames(type)
            /\ AllKeysDeclared(value.f[k], FieldNamed(Declared(type), k).type)

\* The embedding is unset, or a vector of the schema's length
EmbeddingFits(doc, sch) ==
    \/ doc.embedding = None
    \/ doc.embedding.t = "list" /\ Len(doc.embedding.q) = Dims(sch)

\* No declared key holds a value at a timestamp-typed field, and every value
\* at a struct-typed field is a mapping
RECURSIVE PlainValues(_, _)
PlainValues(value, type) ==
    IF IsTimestampType(type) THEN FALSE
    ELSE IF ~IsStructType(type) THEN TRUE
    ELSE /\ value.t = "dict"
         /\ \A k \in DOMAIN value.f \cap DeclaredNames(type) :
                PlainValues(value.f[k], FieldNamed(Declared(type), k).type)

RoundTripHolds ==
    /\ ~IsError(lance_dict)
    /\ pc = "decoded" => decoded = [document EXCEPT !.score = None]

RECURSIVE PresenceFidelity(_, _, _)
PresenceFidelity(value, stored, type) ==
    /\ stored.t = "dict"
    /\ HasKey(stored, "_isempty")
    /\ \A F \in DeclaredNames(type) :
        /\ HasKey(stored.f["_isempty"], F)
        /\ HasKey(stored, F)
        /\ stored.f["_isempty"].f[F] = PyBool(~HasKey(value, F))
        /\ ~HasKey(value, F) => stored.f[F] = None
        /\ (HasKey(value, F) /\ IsStructType(FieldNamed(Declared(type), F).type))
            => PresenceFidelity(value.f[F], stored.f[F], FieldNamed(Declared(type), F).type)

C3_RootPresence ==
    Encoded =>
        \A F \in {"content", "dataframe", "blob"} :
            IF to_dict(document).f[F] = None
            THEN lance_dict.f[F] = None /\ lance_dict.f["_isempty"].f[F] = PyBool(TRUE)
            ELSE /\ lance_dict.f[F] = to_dict(document).f[F]
                 /\ lance_dict.f["_isempty"].f[F] = PyBool(FALSE)

\* C4 as stated: a Document's embedding is stored as the vector with flag
\* false; without an embedding the vector is zero-filled to the schema's length
\* with flag true, and the decoded Document then has no embedding.
C4_VectorPlaceholder ==
    /\ Encoded =>
        IF document.embedding # None
        THEN /\ lance_dict.f["vector"] = document.embedding
             /\ lance_dict.f["_isempty"].f["vector"] = PyBool(FALSE)
        ELSE /\ lance_dict.f["vector"] = PyList([i \in 1..Dims(schema) |-> 0])
             /\ lance_dict.f["_isempty"].f["vector"] = PyBool(TRUE)
    /\ (document # None /\ pc = "decoded" /\ ~IsError(decoded) /\ document.embedding = None)
        => /\ decoded.embedding = None
           /\ document.meta = EmptyDict => decoded.meta = EmptyDict

\* C5 as stated: encoding a Document whose embedding has another length than
\* the schema's vector fails with an error.
C5_EmbeddingLengthValidated ==
    ( /\ document # None
      /\ pc = "encoded"
      /\ document.embedding # None
      /\ Len(document.embedding.q) # Dims(schema) )
    => IsError(lance_dict)

\* One decoded metadata struct against the stored struct it was read from
RECURSIVE MetaFiltered(_, _, _)
MetaFiltered(stored, out, type) ==
    /\ out.t = "dict"
    /\ DOMAIN out.f \subseteq DeclaredNames(type)
    /\ \A F \in DeclaredNames(type) :
        /\ HasKey(out, F) <=> (stored.f["_isempty"].f[F] = PyBool(FALSE))
        /\ (HasKey(out, F) /\ IsStructType(FieldNamed(Declared(type), F).type))
            => MetaFiltered(stored.f[F], out.f[F], FieldNamed(Declared(type), F).type)

\* The dict handed to Document.from_dict, and the Document made of it,
\* against the row they were read from
DecoderFiltered(result, sch, out, doc) ==
    LET flag(F) == result.f["_isempty"].f[F]
        key(F) == IF F = "vector" THEN "embedding" ELSE F
    IN  /\ DOMAIN out.f \subseteq {"id", "content", "dataframe", "blob", "meta", "embedding", "score"}
        /\ \A F \in RootNames \ {"meta"} :
            /\ HasKey(out, key(F)) <=> (flag(F) = PyBool(FALSE))
            /\ (flag(F) = PyBool(TRUE) /\ ~IsError(doc)) =>
                    doc[key(F)] = IF F = "id" THEN GeneratedId ELSE None
        /\ HasKey(out, "meta")
        /\ flag("meta") = PyBool(TRUE) => out.f["meta"] = EmptyDict
        /\ flag("meta") = PyBool(FALSE) =>
                MetaFiltered(result.f["meta"], out.f["meta"], MetaType(sch))
        /\ ~IsError(doc) => doc.meta = out.f["meta"]

RECURSIVE WellFormedStruct(_)
WellFormedStruct(type) ==
    LET fields == type.fields
        rest == SubSeq(fields, 2, Len(fields))
    IN  /\ Len(fields) >= 1
        /\ fields[1].name = "_isempty"
        /\ \A i \in DOMAIN rest : rest[i].name # "_isempty"
        /\ \A i, j \in DOMAIN rest : i < j => NameLess(rest[i].name, rest[j].name)
        /\ IsStructType(fields[1].type)
        /\ FieldNames(fields[1].type.fields) = FieldNames(rest)
        /\ \A i \in DOMAIN rest : fields[1].type.fields[i].type = BoolType
        /\ \A i \in DOMAIN rest :
                IsStructType(rest[i].type) => WellFormedStruct(rest[i].type)

\* The declared fields of a struct are those of the built one, level by level
RECURSIVE SameFields(_, _)
SameFields(declared, built) ==
    /\ Range(FieldNames(declared.fields)) = DeclaredNames(built)
    /\ \A i \in DOMAIN declared.fields :
        LET d == declared.fields[i]
            b == FieldNamed(built.fields, d.name)
        IN  IF IsStructType(d.type)
            THEN IsStructType(b.type) /\ SameFields(d.type, b.type)
            ELSE b.type = d.type

\* C8: in the schema _create_schema returns, every struct of meta at every
\* level has _isempty first, its other fields ascending by name, and an
\* _isempty struct of booleans named as those fields in that order; the root
\* _isempty has exactly blob, content, dataframe, id, meta, vector; building
\* again from the same input gives the same schema.
C8_SchemaStructure ==
    (pc = "built" /\ schema \notin ConfigErrors) =>
        /\ WellFormedStruct(MetaType(schema))
        /\ SameFields(_metadata_schema, MetaType(schema))
        /\ FieldNames(FieldNamed(schema, "_isempty").type.fields)
                = <<"blob", "content", "dataframe", "id", "meta", "vector">>
        /\ \A i \in 1..6 : FieldNamed(schema, "_isempty").type.fields[i].type = BoolType
        /\ schema = _create_schema(_metadata_schema, _embedding_dims)

\* a schema built of a struct declared out of order, with a nested struct
\* declared out of order
C8_Witness ==
    /\ pc = "built"
    /\ schema \notin ConfigErrors
    /\ Len(_metadata_schema.fields) = 2
    /\ _metadata_schema.fields[1].name = "sub"
    /\ _metadata_schema.fields[2].name = "count"
    /\ Len(_metadata_schema.fields[1].type.fields) = 2
    /\ _metadata_schema.fields[1].type.fields[1].name = "x"
    /\ _metadata_schema.fields[1].type.fields[2].name = "sub"
    /\ FieldNames(MetaType(schema).fields) = <<"_isempty", "count", "sub">>
    /\ FieldNames(MetaType(schema).fields[3].type.fields) = <<"_isempty", "sub", "x">>

\* The Document without the metadata keys its schema does not declare
RECURSIVE StripUndeclared(_, _)
StripUndeclared(value, type) ==
    IF ~IsStructType(type) \/ value.t # "dict" THEN value
    ELSE PyDict([k \in DOMAIN value.f \cap DeclaredNames(type) |->
                    StripUndeclared(value.f[k], FieldNamed(Declared(type), k).type)])

\* The key sets of one encoded struct and of the nested structs present
RECURSIVE Conformant(_, _)
Conformant(stored, type) ==
    /\ stored.t = "dict"
    /\ DOMAIN stored.f = Range(FieldNames(type.fields))
    /\ DOMAIN stored.f["_isempty"].f = DeclaredNames(type)
    /\ \A F \in DeclaredNames(type) :
        (IsStructType(FieldNamed(Declared(type), F).type) /\ stored.f[F] # None)
            => Conformant(stored.f[F], FieldNamed(Declared(type), F).type)

\* C7: every struct of the encoded row has exactly the declared field names of
\* its type, _isempty included; undeclared metadata keys are not in the row and
\* change nothing: the encoding is that of the Document without them.
C7_RowConformance ==
    /\ Encoded => Conformant(lance_dict.f["meta"], MetaType(schema))
    /\ (document # None /\ pc = "encoded") =>
        lance_dict = convert_document_to_lancedb(
            [document EXCEPT !.meta = StripUndeclared(document.meta, MetaType(schema))],
            schema)

C7_Witness ==
    /\ Encoded
    /\ HasKey(lance_dict.f["meta"], "sub")
    /\ HasKey(document.meta, "y")
    /\ HasKey(document.meta, "sub")
    /\ document.meta.f["sub"].t = "dict"
    /\ HasKey(document.meta.f["sub"], "y")
    /\ ~HasKey(lance_dict.f["meta"], "y")
    /\ ~HasKey(lance_dict.f["meta"].f["sub"], "y")

\* The filter of the run is a comparison of field F with a value by operator
IsComparison(operator) ==
    /\ filters # None
    /\ HasKey(filters, "field")
    /\ filters.f["operator"] = PyStr(operator)

\* The flag of a metadata path, and that of a root field
FlagPath(F) ==
    IF F[1] = "meta" /\ Len(F) > 1
    THEN SubSeq(F, 1, Len(F) - 1) \o <<"_isempty", F[Len(F)]>>
    ELSE <<"_isempty", F[1]>>

\* F is absent in the row: its flag is true or its value is null
AbsentIn(row, F) == Lookup(row, FlagPath(F)) = PyBool(TRUE) \/ Lookup(row, F) = None

\* The null test the compiler writes for F holds on the row: for a metadata
\* path the flag is true or the value is null, for a root field the value is null
NullTestHolds(row, F) ==
    IF F[1] = "meta" THEN AbsentIn(row, F) ELSE Lookup(row, F) = None

\* v is a value of the kind of column F
OfKind(sch, F, v) == TypeAt(sch, F) # Unknown /\ TypeKind(TypeAt(sch, F)) = LitKind(v)

BadConfig(self) ==
    \/ self._metadata_schema = None
    \/ self._embedding_dims = None
    \/ self._embedding_dims.n <= 0

\* The store of the run had its constructor been given other arguments: none
\* at all, or a schema when it was given none
OtherStore ==
    IF BadConfig(Self) THEN Store(DeclNested, PyInt(MaxDims), table)
    ELSE Store(None, None, table)

-----------------------------------------------------------------------------
(* Filters read on the application's documents *)

\* d.meta.get(name) for a field meta.name, the attribute for a root field
DocValue(doc, F) ==
    IF F[1] = "meta"
    THEN IF HasKey(doc.meta, F[2]) THEN doc.meta.f[F[2]] ELSE None
    ELSE doc[F[1]]

\* A condition holds of a document: == and != as Python compares the values,
\* AND, OR and NOT over the list of conditions
RECURSIVE DocHolds(_, _)
DocHolds(condition, doc) ==
    IF HasKey(condition, "field")
    THEN LET have == DocValue(doc, condition.f["field"].p)
         IN  IF condition.f["operator"].s = "==" THEN have = condition.f["value"]
             ELSE have # condition.f["value"]
    ELSE LET cs == condition.f["conditions"].q
         IN  CASE condition.f["operator"].s = "AND" -> \A i \in DOMAIN cs : DocHolds(cs[i], doc)
               [] condition.f["operator"].s = "OR" -> \E i \in DOMAIN cs : DocHolds(cs[i], doc)
               [] condition.f["operator"].s = "NOT" -> ~(\A i \in DOMAIN cs : DocHolds(cs[i], doc))

\* The ids of the documents of a list, and of those a predicate selects
DocIds(docs) == {docs[i].id : i \in DOMAIN docs}
Written == document.q
WrittenWhere(Test(_)) == {Written[i].id : i \in {j \in DOMAIN Written : Test(Written[j])}}

CountIsFive == Logical("AND", <<Comparison(<<"meta", "count">>, "==", PyInt(5)),
                                Comparison(<<"meta", "count">>, "!=", None)>>)

\* C11: the filter AND[meta.count == 5, meta.count != None] compiles, and of
\* the documents written it returns exactly those whose meta holds count 5.
C11_CountEqualsFive ==
    (pc = "filtered" /\ filters = CountIsFive) =>
        /\ ~IsError(convert_filters_to_where_clause(filters))
        /\ ~IsError(returned)
        /\ Len(returned.q) = Cardinality(DocIds(returned.q))
        /\ DocIds(returned.q)
            = WrittenWhere(LAMBDA d : HasKey(d.meta, "count") /\ d.meta.f["count"] = PyInt(5))

\* d1 with meta {count: 5} and d2 with no meta were written; d1 alone is returned
C11_Witness ==
    /\ pc = "filtered"
    /\ filters = CountIsFive
    /\ Len(Written) = 2
    /\ Written[1].meta = MkDict([count |-> PyInt(5)])
    /\ Written[2].meta = EmptyDict
    /\ ~IsError(returned)
    /\ DocIds(returned.q) = {PyStr("d1")}

IsNot == filters # None /\ HasKey(filters, "operator") /\ filters.f["operator"] = PyStr("NOT")

\* C12: filter_documents with NOT[c1..cn] returns exactly the documents
\* written for which not every ci holds.
C12_NotNegatesConjunction ==
    (pc = "filtered" /\ IsNot) =>
        /\ ~IsError(returned)
        /\ DocIds(returned.q) = WrittenWhere(LAMBDA d : DocHolds(filters, d))

-----------------------------------------------------------------------------
(* Predicates read row by row *)

\* What the engine says of the clause compiled from a condition, on the row
\* of the run
OnRow(condition) ==
    Apply(LAMBDA clause : IF IsError(clause) THEN clause
                          ELSE EvalWhere(clause, schema, lance_dict),
          convert_filters_to_where_clause(condition))

\* Every value of the list is of the kind of column F
ListOfKind(sch, F, V) == \A i \in DOMAIN V.q : OfKind(sch, F, V.q[i])

\* The row holds F as the encoder writes it: null where it is flagged empty
AsEncoded(row, F) == Lookup(row, FlagPath(F)) = PyBool(TRUE) => Lookup(row, F) = None

\* C13: for a list V of constants of the column's kind, a row in which F is
\* present satisfies exactly one of F in V and F not in V; a row in which F
\* is absent satisfies F not in V and does not satisfy F in V.
C13_InNotInComplement ==
    ( /\ pc = "evaluated"
      /\ IsComparison("not in")
      /\ filters.f["field"].p # <<"vector">>
      /\ ListOfKind(schema, filters.f["field"].p, filters.f["value"])
      /\ AsEncoded(lance_dict, filters.f["field"].p) )
    => LET F == filters.f["field"].p
           isin == OnRow(Comparison(F, "in", filters.f["value"]))
       IN  IF AbsentIn(lance_dict, F)
           THEN matched = PyBool(TRUE) /\ isin # PyBool(TRUE)
           ELSE (matched = PyBool(TRUE)) # (isin = PyBool(TRUE))

TruthValues == {PyBool(TRUE), PyBool(FALSE), None}

\* C14: on every row the predicate compiled from F == None has a truth value,
\* and it is that of the predicate compiled from NOT[F != None].
C14_NullTestsComplement ==
    ( /\ pc = "evaluated"
      /\ IsComparison("==")
      /\ filters.f["value"] = None )
    => /\ matched \in TruthValues
       /\ matched = OnRow(Logical("NOT", <<Comparison(filters.f["field"].p, "!=", None)>>))

\* C17: the predicate compiled from an ordering comparison with None is
\* false on every row.
C17_OrderingAgainstNone ==
    ( /\ pc \in {"compiled", "evaluated"}
      /\ \E op \in OrderingOperators : IsComparison(op)
      /\ filters.f["value"] = None )
    => /\ ~IsError(query)
       /\ pc = "evaluated" => matched = PyBool(FALSE)

\* meta.count > None was read on a row that holds a count
C17_Witness ==
    /\ pc = "evaluated"
    /\ IsComparison(">")
    /\ filters.f["value"] = None
    /\ filters.f["field"].p = <<"meta", "count">>
    /\ ~AbsentIn(lance_dict, <<"meta", "count">>)
    /\ matched = PyBool(FALSE)

-----------------------------------------------------------------------------
(* Filter trees that are not well-formed *)

\* The node itself is one of those the compiler must refuse
InvalidNode(n) ==
    IF HasKey(n, "field")
    THEN \/ ~HasKey(n, "operator")
         \/ ~HasKey(n, "value")
         \/ n.f["operator"].s \notin COMPARISON_OPERATORS
         \/ n.f["operator"].s \in {"in", "not in"} /\ n.f["value"].t # "list"
         \/ /\ n.f["operator"].s \in OrderingOperators
            /\ \/ n.f["value"].t \in {"list", "dict", "dataframe"}
               \/ n.f["value"].t = "str" /\ IsError(fromisoformat(n.f["value"].s))
    ELSE \/ ~HasKey(n, "operator")
         \/ ~HasKey(n, "conditions")
         \/ n.f["operator"].s \notin LogicalOperators

EmptyNode(n) ==
    /\ ~HasKey(n, "field")
    /\ HasKey(n, "operator") /\ HasKey(n, "conditions")
    /\ n.f["operator"].s \in LogicalOperators
    /\ n.f["conditions"].q = <<>>

\* The nodes of a tree, at every depth
RECURSIVE Nodes(_)
Nodes(n) ==
    {n} \cup IF ~HasKey(n, "field") /\ HasKey(n, "conditions")
             THEN UNION {Nodes(n.f["conditions"].q[i]) : i \in DOMAIN n.f["conditions"].q}
             ELSE {}

\* C15: a filter tree holding a node that is not well-formed, at any depth
\* and position, makes convert_filters_to_where_clause raise FilterError.
C15_InvalidFilterRaises ==
    (pc = "compiled" /\ \E n \in Nodes(filters) : InvalidNode(n)) => query = FilterError

\* C16: a filter tree holding a logical node with no conditions, at the top
\* or nested, makes convert_filters_to_where_clause raise FilterError.
C16_EmptyLogicalRaises ==
    (pc = "compiled" /\ \E n \in Nodes(filters) : EmptyNode(n)) => query = FilterError

-----------------------------------------------------------------------------
(* Schema serialization *)

\* The names of the children of a serialized struct, at every level
RECURSIVE ChildNames(_)
ChildNames(d) ==
    IF ~HasKey(d, "children") THEN {}
    ELSE UNION {{d.f["children"].q[i].f["name"].s} \cup ChildNames(d.f["children"].q[i]) :
                    i \in DOMAIN d.f["children"].q}

\* C18: a SchemaDict turned into a struct and back is the same SchemaDict, a
\* metadata struct turned into a SchemaDict and back is the same struct, and
\* no serialized form names an _isempty field at any level.
C18_SerializationRoundTrip ==
    /\ pc = "dict-struct" => _metadata_schema \notin {Error("TypeError"), Error("AttributeError")}
    /\ pc = "dict-struct-dict" => decoded = returned
    /\ pc = "struct-dict" => "_isempty" \notin ChildNames(returned)
    /\ pc = "struct-dict-struct" =>
            decoded = Struct(SelectSeq(_metadata_schema.fields, LAMBDA f : f.name # "_isempty"))

-----------------------------------------------------------------------------
(* Duplicate policies *)

\* The rows and the ids a store holds
StoredRows(tbl) == IF tbl = None THEN <<>> ELSE tbl.rows
StoredIds(tbl) == {StoredRows(tbl)[i].f["id"] : i \in DOMAIN StoredRows(tbl)}

\* The rows the engine keeps of a list of Documents under the schema a write
\* to the store uses
RowsOf(self, documents) ==
    Apply(LAMBDA sch :
            IngestAll([i \in DOMAIN documents.q |-> convert_document_to_lancedb(documents.q[i], sch)],
                      sch).q,
          IF self.table # None THEN self.table.schema
          ELSE _create_schema(self._metadata_schema, self._embedding_dims))

BatchIds(documents) == {documents.q[i].id : i \in DOMAIN documents.q}

\* C19 as stated: under FAIL a list of Documents with an id already stored
\* raises DuplicateDocumentError and leaves the stored rows as they were; a
\* list with no stored id is inserted whole and the call returns the number
\* of its distinct ids.
C19_FailAllOrNothing ==
    (pc = "store" /\ returned = count_documents(Self)) =>
        \A documents \in {d \in DocumentLists : IsDocumentList(d)} :
        \A r \in {write_documents(Self, documents, "FAIL")} :
            IF BatchIds(documents) \cap StoredIds(table) # {}
            THEN r.returned = DuplicateDocumentError /\ r.table = table
            ELSE /\ r.returned = PyInt(Cardinality(BatchIds(documents)))
                 /\ StoredRows(r.table) = StoredRows(table) \o RowsOf(Self, documents)

\* C20: after a write under SKIP every row stored before is still stored,
\* unchanged and alone under its id; every id of the batch that was not stored
\* holds the row of its document; the call returns the number of distinct ids
\* of the batch that were not stored.
C20_SkipKeepsExisting ==
    pc = "skip" =>
        \A documents \in SkipBatches :
        \A r \in {write_documents(Self, documents, "SKIP")} :
            /\ SubSeq(r.table.rows, 1, Len(StoredRows(table))) = StoredRows(table)
            /\ \A i \in DOMAIN documents.q :
                \E j \in DOMAIN r.table.rows :
                    /\ r.table.rows[j].f["id"] = documents.q[i].id
                    /\ documents.q[i].id \notin StoredIds(table)
                            => r.table.rows[j] = RowsOf(Self, documents)[i]
            /\ Cardinality(StoredIds(r.table)) = Len(r.table.rows)
            /\ r.returned = PyInt(Cardinality(BatchIds(documents) \ StoredIds(table)))

\* What C21 says of a write that returned: the return value is the number of
\* distinct ids of the batch, every document of the batch is stored, every
\* stored row with an id of the batch is a row of the batch, and the other
\* rows are the ones stored before
Replaced(self, documents, r) ==
    /\ r.returned = PyInt(Cardinality(BatchIds(documents)))
    /\ \A i \in DOMAIN documents.q :
        \E j \in DOMAIN r.table.rows : r.table.rows[j] = RowsOf(self, documents)[i]
    /\ \A j \in DOMAIN r.table.rows :
        r.table.rows[j].f["id"] \in BatchIds(documents)
            => \E i \in DOMAIN documents.q : r.table.rows[j] = RowsOf(self, documents)[i]
    /\ SelectSeq(r.table.rows, LAMBDA row : row.f["id"] \notin BatchIds(documents))
            = SelectSeq(StoredRows(self.table), LAMBDA row : row.f["id"] \notin BatchIds(documents))

-----------------------------------------------------------------------------
(* Lazy table creation *)

\* What the calls answer on a store without a table, perform_query apart
AnswersWithoutTable ==
    /\ args.op = "count_documents" => returned = PyInt(0)
    /\ args.op = "filter_documents" => returned = PyList(<<>>)
    /\ args.op = "delete_documents" => returned = None

\* A step creates the table exactly when it is a write_documents call given a
\* list of Documents on a store whose constructor arguments give a schema
CreatedByWrite ==
    (table = None /\ table' # None)
        <=> /\ table = None
            /\ args'.op = "write_documents"
            /\ IsDocumentList(args'.documents)
            /\ ~BadConfig(Self)

\* C22 as stated: the table is created by the first write_documents call that
\* passes input validation and schema creation and by no other step; while
\* there is no table count_documents returns 0, filter_documents and
\* perform_query return an empty list and delete_documents does nothing.
C22_LazyTableCreation ==
    [][/\ CreatedByWrite
       /\ table' = None =>
            /\ AnswersWithoutTable'
            /\ args'.op = "perform_query" => returned' = PyList(<<>>)]_vars

\* C22 amended: as C22, but perform_query returns an empty list only when its
\* top_k is None, 0 or positive; with a negative top_k it raises ValueError,
\* table or no table.
C22_LazyTableCreationValidTopK ==
    [][/\ CreatedByWrite
       /\ table' = None =>
            /\ AnswersWithoutTable'
            /\ args'.op = "perform_query" =>
                    returned' = IF Truthy(args'.top_k) /\ args'.top_k.n <= 0
                                THEN TopKError ELSE PyList(<<>>)
       /\ (args'.op = "perform_query" /\ Truthy(args'.top_k) /\ args'.top_k.n <= 0)
            => returned' = TopKError]_vars

\* filter_documents returned an empty list on a store that could create its
\* table and has not
C22_Witness ==
    /\ pc = "read"
    /\ table = None
    /\ ~BadConfig(Self)
    /\ args.op = "filter_documents"
    /\ returned = PyList(<<>>)

-----------------------------------------------------------------------------
(* Deletion and uniqueness of ids *)

\* C23: after delete_documents(ids) on an existing table no stored row has an
\* id of ids, the rows with other ids are the ones stored before, and the
\* count has gone down by the number of rows that had an id of ids.
C23_DeleteById ==
    (pc = "store" /\ table # None /\ returned = count_documents(Self)) =>
        \A object_ids \in IdLists :
        \A r \in {delete_documents(Self, object_ids).table} :
            /\ \A j \in DOMAIN r.rows : r.rows[j].f["id"] \notin Range(object_ids)
            /\ r.rows = SelectSeq(table.rows, LAMBDA row : row.f["id"] \notin Range(object_ids))
            /\ count_documents(Store(_metadata_schema, _embedding_dims, r)).n
                    = count_documents(Self).n
                        - Len(SelectSeq(table.rows, LAMBDA row : row.f["id"] \in Range(object_ids)))

-----------------------------------------------------------------------------
(* Decoding twice *)

\* C24: convert_lancedb_to_document leaves the row it is given as it was, so
\* a second decoding of the row succeeds when the first did and gives an
\* equal Document.
C24_DecodeLeavesRow ==
    [][pc' = "decoded" =>
        /\ lance_dict' = lance_dict
        /\ ~IsError(decoded') => convert_lancedb_to_document(lance_dict', schema') = decoded']_vars

-----------------------------------------------------------------------------
(* The text of a compiled predicate *)

\* The number of "(" not yet closed after each token of the text, from a
\* count of `open` before the first: -1 once a ")" closes nothing
RECURSIVE Nesting(_, _)
Nesting(toks, open) ==
    IF open < 0 \/ toks = <<>> THEN open
    ELSE Nesting(Tail(toks), CASE toks[1].k = "(" -> open + 1
                               [] toks[1].k = ")" -> open - 1
                               [] OTHER -> open)

Balanced(text) == Nesting(text.toks, 0) = 0

\* C25: the text compiled from a filter tree that the compiler takes has
\* balanced parentheses: every ")" closes a "(" and no "(" is left open.
C25_BalancedParentheses ==
    (pc = "compiled" /\ ~IsError(query)) => Balanced(query)

\* The column paths that a text names
Columns(text) == {text.toks[i].p : i \in {j \in DOMAIN text.toks : text.toks[j].k = "col"}}

\* The presence flag of a column in the schema of _create_schema: the member
\* of the _isempty struct beside it
PresencePath(path) ==
    SubSeq(path, 1, Len(path) - 1) \o <<"_isempty", path[Len(path)]>>

\* C26: the text compiled from a comparison on vector or on a declared path
\* below meta names columns of the table's schema only: the field itself and
\* its presence flag, _isempty.vector for vector and meta.a._isempty.b for
\* meta.a.b.
C26_PresenceColumnsExist ==
    (/\ pc = "compiled" /\ ~IsError(query) /\ HasKey(filters, "field")
     /\ \/ filters.f["field"].p = <<"vector">>
        \/ StartsWithMeta(filters.f["field"]) /\ Len(filters.f["field"].p) >= 2) =>
        /\ \A path \in Columns(query) : TypeAt(schema, path) # Unknown
        /\ Columns(query) \subseteq {filters.f["field"].p, PresencePath(filters.f["field"].p)}

-----------------------------------------------------------------------------
(* Uniqueness of ids *)

\* C27: whatever was written and deleted, the store holds at most one row per
\* id, and count_documents gives the number of distinct ids stored.
C27_UniqueIds ==
    (pc = "store" /\ table # None) =>
        /\ \A i, j \in DOMAIN table.rows :
                table.rows[i].f["id"] = table.rows[j].f["id"] => i = j
        /\ count_documents(Self).n = Cardinality(IdsOf(table.rows))

-----------------------------------------------------------------------------
(* The read paths *)

ReadPaths == {"filter_documents", "perform_query", "LanceDBFTSRetriever.run",
              "LanceDBEmbeddingRetriever.run"}

\* The Documents of what a read path returned: a list, or the list under
\* "documents"
DocumentsOf(ret) == IF ret.t = "dict" THEN ret.f["documents"].q ELSE ret.q

Unscored(doc) == [doc EXCEPT !.score = None]

\* The Documents given to write_documents in the read run
WrittenDocuments ==
    UNION {Range(documents.q) : documents \in {d \in ReadLists : IsDocumentList(d)}}

\* The top_k that LanceDBEmbeddingRetriever.run searches with: the argument,
\* else the constructor's, else the engine's default
EmbeddingTopK ==
    IF Truthy(Given(args.top_k, None)) THEN args.top_k
    ELSE IF Truthy(retriever._top_k) THEN retriever._top_k
    ELSE PyInt(DefaultLimit)

\* C28: what a read path returns are the decodings, by the table's schema, of
\* the rows its search selects.  Each Document returned is the decoding of a
\* stored row and equal, score apart, to a Document that was written: it has
\* no _isempty key in its meta, and no embedding unless it was written with
\* one.  LanceDBEmbeddingRetriever.run on a store with a table answers as
\* perform_query does for the same vector, filters and limit.
C28_ReadPathsDecode ==
    (pc = "read" /\ args.op \in ReadPaths) =>
        /\ ~IsError(returned) =>
            \A doc \in Range(DocumentsOf(returned)) :
                /\ \E i \in DOMAIN table.rows :
                        Unscored(doc) = Unscored(convert_lancedb_to_document(table.rows[i], table.schema))
                /\ \E written \in WrittenDocuments : Unscored(doc) = Unscored(written)
                /\ ~HasKey(doc.meta, "_isempty")
        /\ (args.op = "LanceDBEmbeddingRetriever.run" /\ table_exists(Self)) =>
                returned = DocumentsOutput(perform_query(Self, args.query, retriever._filters,
                                                         EmbeddingTopK))

\* C29: a LanceDBFTSRetriever constructed with top_k = k > 0 returns at most k
\* Documents from a run that is passed no top_k, and at most j from a run
\* that is passed top_k = j > 0.
C29_RetrieverLimit ==
    (/\ pc = "read" /\ args.op = "LanceDBFTSRetriever.run" /\ ~IsError(returned)
     /\ Truthy(retriever._top_k) /\ retriever._top_k.n > 0) =>
        /\ args.top_k = NotPassed => Len(DocumentsOf(returned)) <= retriever._top_k.n
        /\ (args.top_k.t = "int" /\ args.top_k.n > 0) => Len(DocumentsOf(returned)) <= args.top_k.n
====
